---- MODULE Spec2Model ----
(***************************************************************************)
(* GoSpeccy front-end: the keyboard matrix actor (spectrum/keyboard), the  *)
(* SDL input dispatcher, the SDL renderer actor and the shutdown barrier   *)
(* (output/sdl), modelled as state machines over channels.                 *)
(***************************************************************************)
EXTENDS Integers, Sequences, FiniteSets, TLC

(***************************************************************************)
(* Program tables (spectrum: logical keys, key cells, SDL symbol table)    *)
(***************************************************************************)
\* Logical key codes (iota enumeration).
KEY_1 == 0
KEY_2 == 1
KEY_3 == 2
KEY_4 == 3
KEY_5 == 4
KEY_6 == 5
KEY_7 == 6
KEY_8 == 7
KEY_9 == 8
KEY_0 == 9
KEY_Q == 10
KEY_W == 11
KEY_E == 12
KEY_R == 13
KEY_T == 14
KEY_Y == 15
KEY_U == 16
KEY_I == 17
KEY_O == 18
KEY_P == 19
KEY_A == 20
KEY_S == 21
KEY_D == 22
KEY_F == 23
KEY_G == 24
KEY_H == 25
KEY_J == 26
KEY_K == 27
KEY_L == 28
KEY_Enter == 29
KEY_CapsShift == 30
KEY_Z == 31
KEY_X == 32
KEY_C == 33
KEY_V == 34
KEY_B == 35
KEY_N == 36
KEY_M == 37
KEY_SymbolShift == 38
KEY_Space == 39

\* keyCodes: logical key code -> cell (row, mask) of the 8x8 matrix.
keyCodes ==
    (KEY_1 :> [row |-> 3, mask |-> 1])
    @@ (KEY_2 :> [row |-> 3, mask |-> 2])
    @@ (KEY_3 :> [row |-> 3, mask |-> 4])
    @@ (KEY_4 :> [row |-> 3, mask |-> 8])
    @@ (KEY_5 :> [row |-> 3, mask |-> 16])
    @@ (KEY_6 :> [row |-> 4, mask |-> 16])
    @@ (KEY_7 :> [row |-> 4, mask |-> 8])
    @@ (KEY_8 :> [row |-> 4, mask |-> 4])
    @@ (KEY_9 :> [row |-> 4, mask |-> 2])
    @@ (KEY_0 :> [row |-> 4, mask |-> 1])
    @@ (KEY_Q :> [row |-> 2, mask |-> 1])
    @@ (KEY_W :> [row |-> 2, mask |-> 2])
    @@ (KEY_E :> [row |-> 2, mask |-> 4])
    @@ (KEY_R :> [row |-> 2, mask |-> 8])
    @@ (KEY_T :> [row |-> 2, mask |-> 16])
    @@ (KEY_Y :> [row |-> 5, mask |-> 16])
    @@ (KEY_U :> [row |-> 5, mask |-> 8])
    @@ (KEY_I :> [row |-> 5, mask |-> 4])
    @@ (KEY_O :> [row |-> 5, mask |-> 2])
    @@ (KEY_P :> [row |-> 5, mask |-> 1])
    @@ (KEY_A :> [row |-> 1, mask |-> 1])
    @@ (KEY_S :> [row |-> 1, mask |-> 2])
    @@ (KEY_D :> [row |-> 1, mask |-> 4])
    @@ (KEY_F :> [row |-> 1, mask |-> 8])
    @@ (KEY_G :> [row |-> 1, mask |-> 16])
    @@ (KEY_H :> [row |-> 6, mask |-> 16])
    @@ (KEY_J :> [row |-> 6, mask |-> 8])
    @@ (KEY_K :> [row |-> 6, mask |-> 4])
    @@ (KEY_L :> [row |-> 6, mask |-> 2])
    @@ (KEY_Enter :> [row |-> 6, mask |-> 1])
    @@ (KEY_CapsShift :> [row |-> 0, mask |-> 1])
    @@ (KEY_Z :> [row |-> 0, mask |-> 2])
    @@ (KEY_X :> [row |-> 0, mask |-> 4])
    @@ (KEY_C :> [row |-> 0, mask |-> 8])
    @@ (KEY_V :> [row |-> 0, mask |-> 16])
    @@ (KEY_B :> [row |-> 7, mask |-> 16])
    @@ (KEY_N :> [row |-> 7, mask |-> 8])
    @@ (KEY_M :> [row |-> 7, mask |-> 4])
    @@ (KEY_SymbolShift :> [row |-> 7, mask |-> 2])
    @@ (KEY_Space :> [row |-> 7, mask |-> 1])

\* SDL_KeyMap: device key name -> sequence of logical keys.
SDL_KeyMap ==
    ("0" :> <<KEY_0>>)
    @@ ("1" :> <<KEY_1>>)
    @@ ("2" :> <<KEY_2>>)
    @@ ("3" :> <<KEY_3>>)
    @@ ("4" :> <<KEY_4>>)
    @@ ("5" :> <<KEY_5>>)
    @@ ("6" :> <<KEY_6>>)
    @@ ("7" :> <<KEY_7>>)
    @@ ("8" :> <<KEY_8>>)
    @@ ("9" :> <<KEY_9>>)
    @@ ("a" :> <<KEY_A>>)
    @@ ("b" :> <<KEY_B>>)
    @@ ("c" :> <<KEY_C>>)
    @@ ("d" :> <<KEY_D>>)
    @@ ("e" :> <<KEY_E>>)
    @@ ("f" :> <<KEY_F>>)
    @@ ("g" :> <<KEY_G>>)
    @@ ("h" :> <<KEY_H>>)
    @@ ("i" :> <<KEY_I>>)
    @@ ("j" :> <<KEY_J>>)
    @@ ("k" :> <<KEY_K>>)
    @@ ("l" :> <<KEY_L>>)
    @@ ("m" :> <<KEY_M>>)
    @@ ("n" :> <<KEY_N>>)
    @@ ("o" :> <<KEY_O>>)
    @@ ("p" :> <<KEY_P>>)
    @@ ("q" :> <<KEY_Q>>)
    @@ ("r" :> <<KEY_R>>)
    @@ ("s" :> <<KEY_S>>)
    @@ ("t" :> <<KEY_T>>)
    @@ ("u" :> <<KEY_U>>)
    @@ ("v" :> <<KEY_V>>)
    @@ ("w" :> <<KEY_W>>)
    @@ ("x" :> <<KEY_X>>)
    @@ ("y" :> <<KEY_Y>>)
    @@ ("z" :> <<KEY_Z>>)
    @@ ("return" :> <<KEY_Enter>>)
    @@ ("space" :> <<KEY_Space>>)
    @@ ("left shift" :> <<KEY_CapsShift>>)
    @@ ("right shift" :> <<KEY_CapsShift>>)
    @@ ("left ctrl" :> <<KEY_SymbolShift>>)
    @@ ("right ctrl" :> <<KEY_SymbolShift>>)
    @@ ("left" :> <<KEY_CapsShift, KEY_5>>)
    @@ ("down" :> <<KEY_CapsShift, KEY_6>>)
    @@ ("up" :> <<KEY_CapsShift, KEY_7>>)
    @@ ("right" :> <<KEY_CapsShift, KEY_8>>)
    @@ ("backspace" :> <<KEY_CapsShift, KEY_0>>)
    @@ ("-" :> <<KEY_SymbolShift, KEY_J>>)
    @@ ("=" :> <<KEY_SymbolShift, KEY_L>>)
    @@ ("[" :> <<KEY_SymbolShift, KEY_8>>)
    @@ ("]" :> <<KEY_SymbolShift, KEY_9>>)
    @@ (";" :> <<KEY_SymbolShift, KEY_O>>)
    @@ ("'" :> <<KEY_SymbolShift, KEY_7>>)
    @@ ("," :> <<KEY_SymbolShift, KEY_N>>)
    @@ ("." :> <<KEY_SymbolShift, KEY_M>>)
    @@ ("/" :> <<KEY_SymbolShift, KEY_V>>)
    @@ ("[0]" :> <<KEY_0>>)
    @@ ("[1]" :> <<KEY_1>>)
    @@ ("[2]" :> <<KEY_2>>)
    @@ ("[3]" :> <<KEY_3>>)
    @@ ("[4]" :> <<KEY_4>>)
    @@ ("[5]" :> <<KEY_5>>)
    @@ ("[6]" :> <<KEY_6>>)
    @@ ("[7]" :> <<KEY_7>>)
    @@ ("[8]" :> <<KEY_8>>)
    @@ ("[9]" :> <<KEY_9>>)
    @@ ("[*]" :> <<KEY_SymbolShift, KEY_B>>)
    @@ ("[-]" :> <<KEY_SymbolShift, KEY_J>>)
    @@ ("[+]" :> <<KEY_SymbolShift, KEY_K>>)
    @@ ("[/]" :> <<KEY_SymbolShift, KEY_V>>)

(***************************************************************************)
(* Byte arithmetic used by the key matrix (Go: &, |, ^ on byte)            *)
(***************************************************************************)
RECURSIVE BitAnd(_, _)
BitAnd(a, b) ==
    IF a = 0 \/ b = 0 THEN 0
    ELSE (a % 2) * (b % 2) + 2 * BitAnd(a \div 2, b \div 2)

RECURSIVE BitOr(_, _)
BitOr(a, b) ==
    IF a = 0 THEN b
    ELSE IF b = 0 THEN a
    ELSE (IF a % 2 = 1 \/ b % 2 = 1 THEN 1 ELSE 0) + 2 * BitOr(a \div 2, b \div 2)

\* ^x on a byte: the bitwise complement within 8 bits.
BitNot8(a) == 255 - a

Rows == 0 .. 7

\* Keyboard.reset: every row released (0xff).
ResetKeyStates == [row \in Rows |-> 255]

\* Keyboard.SetKeyState(row, state) on the matrix ks.
SetKeyState(ks, row, state) == [ks EXCEPT ![row] = state]

\* Keyboard.GetKeyState(row) on the matrix ks.
GetKeyState(ks, row) == ks[row]

\* Variant: KeyDown without the complement (&= mask).
KeyDown_AndMask(ks, logicalKeyCode) ==
    IF logicalKeyCode \in DOMAIN keyCodes
    THEN [ks EXCEPT ![keyCodes[logicalKeyCode].row] =
                        BitAnd(@, keyCodes[logicalKeyCode].mask)]
    ELSE ks

\* Keyboard.KeyDown(logicalKeyCode) on the matrix ks: clears the key's mask
\* bits in the key's row when the code is in keyCodes, else nothing.
KeyDown(ks, logicalKeyCode) ==
    IF logicalKeyCode \in DOMAIN keyCodes
    THEN [ks EXCEPT ![keyCodes[logicalKeyCode].row] =
                        BitAnd(@, BitNot8(keyCodes[logicalKeyCode].mask))]
    ELSE ks

\* Variant: KeyUp written with KeyDown's statement (&= ^mask).
KeyUp_ClearsLikeKeyDown(ks, logicalKeyCode) == KeyDown(ks, logicalKeyCode)

\* Variant: KeyUp with a code that is not in keyCodes resets the matrix.
KeyUp_UnknownResets(ks, logicalKeyCode) ==
    IF logicalKeyCode \in DOMAIN keyCodes
    THEN [ks EXCEPT ![keyCodes[logicalKeyCode].row] =
                        BitOr(@, keyCodes[logicalKeyCode].mask)]
    ELSE ResetKeyStates

\* Keyboard.KeyUp(logicalKeyCode) on the matrix ks: sets the key's mask bits.
KeyUp(ks, logicalKeyCode) ==
    IF logicalKeyCode \in DOMAIN keyCodes
    THEN [ks EXCEPT ![keyCodes[logicalKeyCode].row] =
                        BitOr(@, keyCodes[logicalKeyCode].mask)]
    ELSE ks

(***************************************************************************)
(* Bounds of the model                                                     *)
(***************************************************************************)
\* Number of KeyPress calls a scripting client makes.
MaxPresses == 1
\* Longest argument list of a KeyPressSequence call.
MaxSeqLen == 2
\* Number of Cmd_SendLoad commands submitted.
MaxLoads == 1
\* Number of device key presses the user makes.
MaxUserKeys == 2
\* Number of checkpoint (Pause) requests sent to one actor.
MaxPauses == 1
\* Number of device key names the user chooses from (prefix of DevKeyList).
NumDevKeys == 2
\* Number of logical keys scripting clients choose from (prefix of ScriptKeyList).
NumScriptKeys == 2
\* Number of ResizeVideo calls.
MaxResizes == 1

DevKeyList == <<"left ctrl", "-", "p", "left shift", "left", "escape", "f1">>
DevKeys == {DevKeyList[i] : i \in 1 .. NumDevKeys}
ScriptKeyList == <<KEY_J, KEY_P, KEY_SymbolShift, KEY_CapsShift>>
ScriptKeys == {ScriptKeyList[i] : i \in 1 .. NumScriptKeys}

\* Sequences over S of length 0 .. n.
SeqsUpTo(S, n) == UNION {[1 .. m -> S] : m \in 0 .. n}

(***************************************************************************)
(* State                                                                   *)
(***************************************************************************)
VARIABLES
    \* spectrum.Keyboard
    keyStates,      \* Keyboard.keyStates: [8]byte
    kbCmd,          \* the command commandLoop is executing (NoCmd between commands)
    kbStep,         \* position in the command's statement list
    kbTrace,        \* statements of the command executed so far
    kbForeign,      \* keys changed by direct calls while the command runs
    \* clients of Keyboard.CommandChannel
    pr,             \* a client calling KeyPress and receiving from its done channel
    sq,             \* a client calling KeyPressSequence; its done channel
    ldLeft,         \* Cmd_SendLoad commands still to be submitted
    ldRom,          \* romType of the last Cmd_SendLoad submitted ("" before the first)
    \* sdlEventLoop
    evCur,          \* the sdl.KeyboardEvent being handled (NoEv otherwise)
    evIdx,          \* loop index i over the mapped sequence
    evTrace,        \* keys the loop over the sequence has applied, in order
    userHeld,       \* device keys physically held down
    userLeft,       \* device key presses the user still makes
    \* event loops and spectrum.Application
    pc,             \* position of each actor loop
    exitRequested,  \* Application: exit has been requested
    registered,     \* Application: event loops created by NewEventLoop
    pauseCh,        \* per loop: state of the requester on evtLoop.Pause
    termCh,         \* per loop: state of the requester on evtLoop.Terminate
    pauseReqs,      \* per loop: requests received on evtLoop.Pause
    pauseAcks,      \* per loop: echoes sent on evtLoop.Pause
    termAcks,       \* per loop: echoes sent on evtLoop.Terminate
    handled,        \* per loop: commands / events taken after the last checkpoint echo
    \* Main and the shutdown barrier
    mainPc,         \* position of Main
    wgCount,        \* counter of the sync.WaitGroup 'shutdown'
    sdlQuit,        \* number of sdl.Quit() calls
    \* SDLRenderer, composer and emulation core displays
    rd,             \* SDLRenderer fields
    rCmd,           \* cmd_newSurface being handled by SDLRenderer.loop
    composerInputs, \* surfaces registered as composer inputs
    composerOutput, \* composer output surface (NoSurface = nil)
    freed,          \* surfaces on which Free() was called
    coreDisplays,   \* display sinks registered with the emulation core
    nextSurface,    \* allocator of surface identities
    rv,             \* per caller: a goroutine calling ResizeVideo
    \* direct KeyDown / KeyUp calls on a given matrix
    dc,
    \* SDLRenderer audio settings, the emulation core's audio receivers
    audioCfg,       \* SDLRenderer fields audio, hqAudio, audioFreq
    ac,             \* a client calling EnableAudio / SetAudioFreq / SetAudioQuality
    audioReceivers, \* audio receivers registered with the emulation core
    audioEvents,    \* commands the current call has sent to the emulation core
    audioMsgs,      \* errors reported with app.PrintfMsg
    \* speccy.Joystick
    kempston,       \* Kempston bits that are set
    joyLast,        \* the joystick event handled last, with the state before it
    \* package initialisation of spectrum
    selfCheck,      \* the tables init() is run on and its outcome
    \* Keyboard.mutex and a caller of GetKeyState
    \* the user's device keys
    userChord,      \* history: the largest number of device keys held at once
    mu,             \* Keyboard.mutex (sync.RWMutex): writer, active and blocked readers
    gk,             \* the emulation core reading a matrix row with GetKeyState
    \* spectrum.Memory and the ULA it notifies
    memData,        \* Memory.data at the sampled addresses
    ulaLog,         \* calls of ula.screenBitmapWrite / ula.screenAttrWrite, in order
    mw              \* the caller of Memory.Write / Memory.Read

kbVars == <<keyStates, kbCmd, kbStep, kbTrace, kbForeign>>
clientVars == <<pr, sq, ldLeft>>
evVars == <<evCur, evIdx, evTrace, userHeld, userLeft>>
appVars == <<exitRequested, registered, pauseCh, termCh, pauseReqs, pauseAcks, termAcks>>
mainVars == <<mainPc, wgCount, sdlQuit>>
rVars == <<rd, rCmd, composerInputs, composerOutput, freed, coreDisplays, nextSurface, rv>>
audioVars == <<audioCfg, ac, audioReceivers, audioEvents, audioMsgs>>
joyVars == <<kempston, joyLast>>
loadVars == <<ldRom>>
lockVars == <<mu, gk>>
chordVars == <<userChord>>
memVars == <<memData, ulaLog, mw>>
moreVars == <<lockVars, chordVars, memVars>>
extVars == <<audioVars, joyVars, selfCheck, loadVars, moreVars>>
vars == <<kbVars, clientVars, evVars, pc, appVars, handled, mainVars, rVars, dc, extVars>>

Actors == {"keyboard", "renderer", "sdl"}

\* Goroutines that call SDLRenderer.ResizeVideo.
Callers == {1, 2}

NoCmd == [type |-> "none", key |-> 0, rom |-> "", done |-> [kind |-> "none", id |-> 0]]
NoEv == [type |-> "none", name |-> ""]
NoSurface == 0

(***************************************************************************)
(* Event-loop protocol shared by the three actor loops                     *)
(*   select { case <-evtLoop.Pause: evtLoop.Pause <- 0                     *)
(*            case <-evtLoop.Terminate: evtLoop.Terminate <- 0; return }   *)
(* Channels are unbuffered: a send and its receive are one step.           *)
(***************************************************************************)

\* Application.NewEventLoop: the calling loop gets a (Pause, Terminate)
\* channel pair and is known to the application from now on.
NewEventLoop(a) ==
    /\ registered' = registered \cup {a}

\* Variant: the loop goes back to its select after the terminate echo.
AfterTerminateEcho_Resumes(a) == "select"

\* The statement a loop reaches after evtLoop.Terminate <- 0: the keyboard
\* loop returns, the two SDL loops call shutdown.Done() first.
AfterTerminateEcho(a) == IF a = "keyboard" THEN "terminated" ELSE "termDone"

\* Variant: the loop returns after the checkpoint echo.
AfterPauseEcho_Exits(a) == "terminated"

\* The statement a loop reaches after evtLoop.Pause <- 0: back to select.
AfterPauseEcho(a) == "select"

\* A requester sends on the Pause channel of a loop the application knows,
\* one request at a time per loop.
PauseRequested(a) ==
    /\ a \in registered
    /\ pauseCh[a] = "idle"
    /\ pauseReqs[a] < MaxPauses

\* The application sends on the Terminate channel of every loop it knows
\* once exit has been requested, once per loop.
TerminateRequested(a) ==
    /\ a \in registered
    /\ exitRequested
    /\ termCh[a] = "idle"

\* case <-evtLoop.Pause: a requester's send meets the loop's receive.
PauseRecv(a) ==
    /\ pc[a] = "select"
    /\ PauseRequested(a)
    /\ pc' = [pc EXCEPT ![a] = "pauseEcho"]
    /\ pauseCh' = [pauseCh EXCEPT ![a] = "waiting"]
    /\ pauseReqs' = [pauseReqs EXCEPT ![a] = @ + 1]
    /\ UNCHANGED <<kbVars, clientVars, evVars, exitRequested, registered, termCh,
                   pauseAcks, termAcks, handled, mainVars, rVars, dc, extVars>>

\* evtLoop.Pause <- 0: the echo meets the requester's receive.
PauseEcho(a) ==
    /\ pc[a] = "pauseEcho"
    /\ pauseCh[a] = "waiting"
    /\ pc' = [pc EXCEPT ![a] = AfterPauseEcho(a)]
    /\ pauseCh' = [pauseCh EXCEPT ![a] = "idle"]
    /\ pauseAcks' = [pauseAcks EXCEPT ![a] = @ + 1]
    /\ handled' = [handled EXCEPT ![a] = FALSE]
    /\ UNCHANGED <<kbVars, clientVars, evVars, exitRequested, registered, termCh,
                   pauseReqs, termAcks, mainVars, rVars, dc, extVars>>

\* case <-evtLoop.Terminate: the application's send meets the loop's receive.
TerminateRecv(a) ==
    /\ pc[a] = "select"
    /\ TerminateRequested(a)
    /\ pc' = [pc EXCEPT ![a] = "termEcho"]
    /\ termCh' = [termCh EXCEPT ![a] = "waiting"]
    /\ UNCHANGED <<kbVars, clientVars, evVars, exitRequested, registered, pauseCh,
                   pauseReqs, pauseAcks, termAcks, handled, mainVars, rVars, dc, extVars>>

\* evtLoop.Terminate <- 0: the echo meets the application's receive.
TerminateEcho(a) ==
    /\ pc[a] = "termEcho"
    /\ termCh[a] = "waiting"
    /\ pc' = [pc EXCEPT ![a] = AfterTerminateEcho(a)]
    /\ termCh' = [termCh EXCEPT ![a] = "acked"]
    /\ termAcks' = [termAcks EXCEPT ![a] = @ + 1]
    /\ UNCHANGED <<kbVars, clientVars, evVars, exitRequested, registered, pauseCh,
                   pauseReqs, pauseAcks, handled, mainVars, rVars, dc, extVars>>

\* shutdown.Done(); return   (SDLRenderer.loop and sdlEventLoop)
ShutdownDone(a) ==
    /\ pc[a] = "termDone"
    /\ pc' = [pc EXCEPT ![a] = "terminated"]
    /\ wgCount' = wgCount - 1
    /\ UNCHANGED <<kbVars, clientVars, evVars, appVars, handled, mainPc, sdlQuit,
                   rVars, dc, extVars>>

\* Application.RequestExit: sets the one-way exit flag (idempotent).
RequestExit == exitRequested' = TRUE

\* An exit request from outside the front-end (signal handler, console).
ExternalRequestExit ==
    /\ RequestExit
    /\ UNCHANGED <<kbVars, clientVars, evVars, pc, registered, pauseCh, termCh,
                   pauseReqs, pauseAcks, termAcks, handled, mainVars, rVars, dc, extVars>>

(***************************************************************************)
(* Keyboard.commandLoop                                                    *)
(***************************************************************************)
ROM48 == "ROM48"
RomTypes == {ROM48, "ROM_OTHER"}

Stmt(op, arg) == [op |-> op, arg |-> arg]

\* delayAfterKeyDown sleeps 1 frame, delayAfterKeyUp sleeps 10 frames.
DelayAfterKeyDownFrames == 1
DelayAfterKeyUpFrames == 10

\* Variant: no completion value is sent.
KeyPressScript_NoDone(k) ==
    << Stmt("KeyDown", k), Stmt("sleep", DelayAfterKeyDownFrames),
       Stmt("KeyUp", k), Stmt("sleep", DelayAfterKeyUpFrames) >>

\* Variant: the key is released before the first delay.
KeyPressScript_NoHold(k) ==
    << Stmt("KeyDown", k), Stmt("KeyUp", k), Stmt("sleep", DelayAfterKeyDownFrames),
       Stmt("sleep", DelayAfterKeyUpFrames), Stmt("done", 0) >>

\* case Cmd_KeyPress: the statements executed for the command.
KeyPressScript(k) ==
    << Stmt("KeyDown", k), Stmt("sleep", DelayAfterKeyDownFrames),
       Stmt("KeyUp", k), Stmt("sleep", DelayAfterKeyUpFrames),
       Stmt("done", 0) >>

\* Variant: SymbolShift is pressed and released around each P tap.
SendLoadScript_ShiftPerTap(romType) ==
    IF romType = ROM48
    THEN << Stmt("KeyDown", KEY_J), Stmt("sleep", DelayAfterKeyDownFrames),
            Stmt("KeyUp", KEY_J), Stmt("sleep", DelayAfterKeyUpFrames),
            Stmt("KeyDown", KEY_SymbolShift),
            Stmt("KeyDown", KEY_P), Stmt("sleep", DelayAfterKeyDownFrames),
            Stmt("KeyUp", KEY_P), Stmt("sleep", DelayAfterKeyUpFrames),
            Stmt("KeyUp", KEY_SymbolShift),
            Stmt("KeyDown", KEY_SymbolShift),
            Stmt("KeyDown", KEY_P), Stmt("sleep", DelayAfterKeyDownFrames),
            Stmt("KeyUp", KEY_P), Stmt("sleep", DelayAfterKeyUpFrames),
            Stmt("KeyUp", KEY_SymbolShift),
            Stmt("KeyDown", KEY_Enter), Stmt("sleep", DelayAfterKeyDownFrames),
            Stmt("KeyUp", KEY_Enter) >>
    ELSE << >>

\* case Cmd_SendLoad: the statements executed for the command.
SendLoadScript(romType) ==
    IF romType = ROM48
    THEN << Stmt("KeyDown", KEY_J), Stmt("sleep", DelayAfterKeyDownFrames),
            Stmt("KeyUp", KEY_J), Stmt("sleep", DelayAfterKeyUpFrames),
            Stmt("KeyDown", KEY_SymbolShift),
            Stmt("KeyDown", KEY_P), Stmt("sleep", DelayAfterKeyDownFrames),
            Stmt("KeyUp", KEY_P), Stmt("sleep", DelayAfterKeyUpFrames),
            Stmt("KeyDown", KEY_P), Stmt("sleep", DelayAfterKeyDownFrames),
            Stmt("KeyUp", KEY_P), Stmt("sleep", DelayAfterKeyUpFrames),
            Stmt("KeyUp", KEY_SymbolShift),
            Stmt("KeyDown", KEY_Enter), Stmt("sleep", DelayAfterKeyDownFrames),
            Stmt("KeyUp", KEY_Enter) >>
    ELSE << >>

CommandScript(cmd) ==
    IF cmd.type = "KeyPress" THEN KeyPressScript(cmd.key)
    ELSE IF cmd.type = "SendLoad" THEN SendLoadScript(cmd.rom)
    ELSE << >>

Cmd_KeyPress(k, done) == [type |-> "KeyPress", key |-> k, rom |-> "", done |-> done]
Cmd_SendLoad(romType) ==
    [type |-> "SendLoad", key |-> 0, rom |-> romType, done |-> [kind |-> "none", id |-> 0]]

\* go keyboard.commandLoop() has started; evtLoop := NewEventLoop()
commandLoop_Start ==
    /\ pc["keyboard"] = "spawned"
    /\ NewEventLoop("keyboard")
    /\ pc' = [pc EXCEPT !["keyboard"] = "select"]
    /\ UNCHANGED <<kbVars, clientVars, evVars, exitRequested, pauseCh, termCh,
                   pauseReqs, pauseAcks, termAcks, handled, mainVars, rVars, dc, extVars>>

commandLoop_Pause == PauseRecv("keyboard") \/ PauseEcho("keyboard")

commandLoop_Terminate == TerminateRecv("keyboard") \/ TerminateEcho("keyboard")

\* Variant: commands are also received while one is being executed.
CanReceiveCommand_WhileRunning == pc["keyboard"] \in {"select", "cmd"}

\* Variant: commands are also received while the loop sleeps in a delay.
CanReceiveCommand_DuringDelay ==
    \/ pc["keyboard"] = "select"
    \/ pc["keyboard"] = "cmd" /\ CommandScript(kbCmd)[kbStep].op = "sleep"

\* The loop receives from CommandChannel only in its select, between commands.
CanReceiveCommand == pc["keyboard"] = "select"

\* case untyped_cmd := <-keyboard.CommandChannel: the loop's half of the
\* rendezvous with a sender. A command without statements is done at once.
commandLoop_Take(cmd) ==
    /\ CanReceiveCommand
    /\ kbTrace' = << >>
    /\ kbForeign' = {}
    /\ handled' = [handled EXCEPT !["keyboard"] = TRUE]
    /\ IF CommandScript(cmd) = << >>
       THEN /\ kbCmd' = NoCmd
            /\ kbStep' = 0
            /\ pc' = pc
       ELSE /\ kbCmd' = cmd
            /\ kbStep' = 1
            /\ pc' = [pc EXCEPT !["keyboard"] = "cmd"]

\* The statement the loop is at.
KbStmt == CommandScript(kbCmd)[kbStep]

\* Advance past the current statement; after the last one, back to select.
KbAdvance ==
    /\ kbTrace' = Append(kbTrace, KbStmt)
    /\ kbForeign' = kbForeign
    /\ IF kbStep = Len(CommandScript(kbCmd))
       THEN /\ kbStep' = 0
            /\ kbCmd' = NoCmd
            /\ pc' = [pc EXCEPT !["keyboard"] = "select"]
       ELSE /\ kbStep' = kbStep + 1
            /\ kbCmd' = kbCmd
            /\ pc' = pc

\* keyboard.KeyDown(...) inside a command
commandLoop_KeyDown ==
    /\ pc["keyboard"] = "cmd"
    /\ KbStmt.op = "KeyDown"
    /\ keyStates' = KeyDown(keyStates, KbStmt.arg)
    /\ KbAdvance
    /\ UNCHANGED <<clientVars, evVars, appVars, handled, mainVars, rVars, dc, extVars>>

\* keyboard.KeyUp(...) inside a command
commandLoop_KeyUp ==
    /\ pc["keyboard"] = "cmd"
    /\ KbStmt.op = "KeyUp"
    /\ keyStates' = KeyUp(keyStates, KbStmt.arg)
    /\ KbAdvance
    /\ UNCHANGED <<clientVars, evVars, appVars, handled, mainVars, rVars, dc, extVars>>

\* keyboard.delayAfterKeyDown() / delayAfterKeyUp(): the sleep elapses
commandLoop_Delay ==
    /\ pc["keyboard"] = "cmd"
    /\ KbStmt.op = "sleep"
    /\ KbAdvance
    /\ UNCHANGED <<keyStates, clientVars, evVars, appVars, handled, mainVars, rVars, dc, extVars>>

\* Variant: the completion value is sent without a receiver being there.
commandLoop_DoneUnbuffered_NoWait ==
    /\ pc["keyboard"] = "cmd"
    /\ KbStmt.op = "done"
    /\ kbCmd.done.kind = "unbuffered"
    /\ KbAdvance
    /\ UNCHANGED <<keyStates, clientVars, evVars, appVars, handled, mainVars, rVars, dc, extVars>>

\* cmd.done <- true on the unbuffered channel made by KeyPress: the send
\* meets the receive of the client that holds the channel.
commandLoop_DoneUnbuffered ==
    /\ pc["keyboard"] = "cmd"
    /\ KbStmt.op = "done"
    /\ kbCmd.done.kind = "unbuffered"
    /\ pr.pc = "holding"
    /\ pr.chan = kbCmd.done.id
    /\ pr' = [pr EXCEPT !.pc = "idle", !.got = @ + 1]
    /\ KbAdvance
    /\ UNCHANGED <<keyStates, sq, ldLeft, evVars, appVars, handled, mainVars, rVars, dc, extVars>>

\* cmd.done <- true on the buffered channel made by KeyPressSequence: the
\* send proceeds when the buffer has room.
commandLoop_DoneBuffered ==
    /\ pc["keyboard"] = "cmd"
    /\ KbStmt.op = "done"
    /\ kbCmd.done.kind = "buffered"
    /\ sq.buf < sq.cap
    /\ sq' = [sq EXCEPT !.buf = @ + 1]
    /\ KbAdvance
    /\ UNCHANGED <<keyStates, pr, ldLeft, evVars, appVars, handled, mainVars, rVars, dc, extVars>>

(***************************************************************************)
(* Senders on Keyboard.CommandChannel (unbuffered: the send completes when *)
(* commandLoop receives it)                                                *)
(***************************************************************************)

\* Keyboard.KeyPress: done := make(chan bool); CommandChannel <- Cmd_KeyPress;
\* return done. The client then holds the channel.
KeyPress(logicalKeyCode) ==
    /\ pr.pc = "idle"
    /\ pr.left > 0
    /\ commandLoop_Take(Cmd_KeyPress(logicalKeyCode,
                                     [kind |-> "unbuffered", id |-> pr.calls + 1]))
    /\ pr' = [pr EXCEPT !.pc = "holding", !.left = @ - 1,
                        !.chan = pr.calls + 1, !.calls = @ + 1]
    /\ UNCHANGED <<keyStates, sq, ldLeft, evVars, appVars, mainVars, rVars, dc, extVars>>

KeyPress_Call == \E k \in ScriptKeys : KeyPress(k)

\* The client drops the channel KeyPress returned without receiving from it.
KeyPress_Abandon ==
    /\ pr.pc = "holding"
    /\ pr' = [pr EXCEPT !.pc = "idle", !.chan = 0]
    /\ UNCHANGED <<kbVars, sq, ldLeft, evVars, pc, appVars, handled, mainVars, rVars, dc, extVars>>

\* Variant: the channel is made without a buffer.
SeqDoneCapacity_Unbuffered(logicalKeyCodes) == 0

\* KeyPressSequence: done := make(chan bool, len(logicalKeyCodes))
SeqDoneCapacity(logicalKeyCodes) == Len(logicalKeyCodes)

\* KeyPressSequence is entered: the channel is made; with no keys the call
\* returns at once.
KeyPressSequence_Call ==
    /\ sq.pc = "idle"
    /\ \E keys \in SeqsUpTo(ScriptKeys, MaxSeqLen) :
          sq' = [sq EXCEPT !.pc = IF Len(keys) = 0 THEN "returned" ELSE "sending",
                           !.keys = keys, !.cap = SeqDoneCapacity(keys)]
    /\ UNCHANGED <<kbVars, pr, ldLeft, evVars, pc, appVars, handled, mainVars, rVars, dc, extVars>>

\* One iteration of: for _, keyCode := range logicalKeyCodes {
\*     keyboard.CommandChannel <- Cmd_KeyPress{keyCode, done} }
\* after the last one the call returns done.
KeyPressSequence_Send ==
    /\ sq.pc = "sending"
    /\ commandLoop_Take(Cmd_KeyPress(sq.keys[sq.sent + 1], [kind |-> "buffered", id |-> 1]))
    /\ sq' = [sq EXCEPT !.sent = @ + 1,
                        !.pc = IF sq.sent + 1 = Len(sq.keys) THEN "returned" ELSE "sending"]
    /\ UNCHANGED <<keyStates, pr, ldLeft, evVars, appVars, mainVars, rVars, dc, extVars>>

\* The caller of KeyPressSequence receives one value from the returned channel.
KeyPressSequence_Receive ==
    /\ sq.pc = "returned"
    /\ sq.buf > 0
    /\ sq' = [sq EXCEPT !.buf = @ - 1, !.got = @ + 1]
    /\ UNCHANGED <<kbVars, pr, ldLeft, evVars, pc, appVars, handled, mainVars, rVars, dc, extVars>>

\* keyboard.CommandChannel <- Cmd_SendLoad{romType}
SendLoad ==
    /\ ldLeft > 0
    /\ \E romType \in RomTypes :
          /\ commandLoop_Take(Cmd_SendLoad(romType))
          /\ ldRom' = romType
    /\ ldLeft' = ldLeft - 1
    /\ UNCHANGED <<keyStates, pr, sq, evVars, appVars, mainVars, rVars, dc,
                   audioVars, joyVars, selfCheck, moreVars>>

(***************************************************************************)
(* sdlEventLoop                                                            *)
(***************************************************************************)

\* go sdlEventLoop(...) has started; evtLoop := app.NewEventLoop()
sdlEventLoop_Start ==
    /\ pc["sdl"] = "spawned"
    /\ NewEventLoop("sdl")
    /\ pc' = [pc EXCEPT !["sdl"] = "registered"]
    /\ UNCHANGED <<kbVars, clientVars, evVars, exitRequested, pauseCh, termCh,
                   pauseReqs, pauseAcks, termAcks, handled, mainVars, rVars, dc, extVars>>

\* shutdown.Add(1)
sdlEventLoop_Add ==
    /\ pc["sdl"] = "registered"
    /\ wgCount' = wgCount + 1
    /\ pc' = [pc EXCEPT !["sdl"] = "select"]
    /\ UNCHANGED <<kbVars, clientVars, evVars, appVars, handled, mainPc, sdlQuit, rVars, dc, extVars>>

sdlEventLoop_Pause == PauseRecv("sdl") \/ PauseEcho("sdl")

sdlEventLoop_Terminate ==
    TerminateRecv("sdl") \/ TerminateEcho("sdl") \/ ShutdownDone("sdl")

\* case sdl.QuitEvent: app.RequestExit()
sdlEventLoop_QuitEvent ==
    /\ pc["sdl"] = "select"
    /\ RequestExit
    /\ handled' = [handled EXCEPT !["sdl"] = TRUE]
    /\ UNCHANGED <<kbVars, clientVars, evVars, pc, registered, pauseCh, termCh,
                   pauseReqs, pauseAcks, termAcks, mainVars, rVars, dc, extVars>>

\* The user's device: a key that is up can go down, a key that is down can
\* go up.
UserCanSend(type, keyName) ==
    IF type = "KEYDOWN" THEN keyName \notin userHeld /\ userLeft > 0
    ELSE keyName \in userHeld

UserAfter(type, keyName) ==
    /\ userHeld' = IF type = "KEYDOWN" THEN userHeld \cup {keyName}
                   ELSE userHeld \ {keyName}
    /\ userLeft' = IF type = "KEYDOWN" THEN userLeft - 1 ELSE userLeft
    /\ userChord' = IF type = "KEYDOWN" /\ Cardinality(userHeld) + 1 > userChord
                    THEN Cardinality(userHeld) + 1 ELSE userChord

\* Index at which the loop over the mapped sequence starts (0-based as in
\* the code): 0 for KEYDOWN, len-1 for KEYUP.
FirstIndex(type, sequence) == IF type = "KEYDOWN" THEN 0 ELSE Len(sequence) - 1

\* Index after one iteration: i++ for KEYDOWN, i-- for KEYUP.
NextIndex(type, i) == IF type = "KEYDOWN" THEN i + 1 ELSE i - 1

\* Variant: the sequence indexed from its end.
SequenceAt_FromEnd(sequence, i) == sequence[Len(sequence) - i]

\* sequence[i] with the code's 0-based index.
SequenceAt(sequence, i) == sequence[i + 1]

\* Variant: the release loop stops before the first key of the sequence.
InLoop_ReleaseSkipsFirst(type, i, sequence) ==
    IF type = "KEYDOWN" THEN i < Len(sequence) ELSE i > 0

\* Loop condition: i < len(sequence) for KEYDOWN, i >= 0 for KEYUP.
InLoop(type, i, sequence) == IF type = "KEYDOWN" THEN i < Len(sequence) ELSE i >= 0

\* case sdl.KeyboardEvent: received from sdl.Events. "escape" going down
\* requests exit; a name in SDL_KeyMap starts the loop over its sequence;
\* any other name is dropped.
KeyboardEvent(type, keyName) ==
    /\ pc["sdl"] = "select"
    /\ UserCanSend(type, keyName)
    /\ UserAfter(type, keyName)
    /\ handled' = [handled EXCEPT !["sdl"] = TRUE]
    /\ IF keyName = "escape" /\ type = "KEYDOWN"
       THEN /\ RequestExit
            /\ UNCHANGED <<pc, evCur, evIdx, evTrace>>
       ELSE /\ UNCHANGED exitRequested
            /\ IF keyName \in DOMAIN SDL_KeyMap
                  /\ InLoop(type, FirstIndex(type, SDL_KeyMap[keyName]), SDL_KeyMap[keyName])
               THEN /\ evCur' = [type |-> type, name |-> keyName]
                    /\ evIdx' = FirstIndex(type, SDL_KeyMap[keyName])
                    /\ evTrace' = << >>
                    /\ pc' = [pc EXCEPT !["sdl"] = "keys"]
               ELSE UNCHANGED <<pc, evCur, evIdx, evTrace>>
    /\ UNCHANGED <<kbVars, clientVars, registered, pauseCh, termCh, pauseReqs, pauseAcks,
                   termAcks, mainVars, rVars, dc, audioVars, joyVars, selfCheck, loadVars,
                   lockVars, memVars>>

\* One iteration of the loop over the sequence:
\*   KEYDOWN: speccy.Keyboard.KeyDown(sequence[i]); i++
\*   KEYUP:   speccy.Keyboard.KeyUp(sequence[i]);   i--
sdlEventLoop_KeyStep ==
    /\ pc["sdl"] = "keys"
    /\ LET sequence == SDL_KeyMap[evCur.name]
           key == SequenceAt(sequence, evIdx)
           i == NextIndex(evCur.type, evIdx)
       IN /\ keyStates' = IF evCur.type = "KEYDOWN" THEN KeyDown(keyStates, key)
                          ELSE KeyUp(keyStates, key)
          /\ evTrace' = Append(evTrace, key)
          /\ kbForeign' = IF pc["keyboard"] = "cmd" THEN kbForeign \cup {key}
                          ELSE kbForeign
          /\ IF InLoop(evCur.type, i, sequence)
             THEN /\ evIdx' = i
                  /\ pc' = pc
             ELSE /\ evIdx' = 0
                  /\ pc' = [pc EXCEPT !["sdl"] = "select"]
    /\ UNCHANGED <<kbCmd, kbStep, kbTrace, clientVars, evCur, userHeld, userLeft, appVars,
                   handled, mainVars, rVars, dc, extVars>>

EventTypes == {"KEYDOWN", "KEYUP"}

\* Keyboard events of the device keys the user has at hand.
sdlEventLoop_KeyboardEvent ==
    \E type \in EventTypes, keyName \in DevKeys : KeyboardEvent(type, keyName)

\* Keyboard events of every key of the symbol table.
sdlEventLoop_AnyKeyboardEvent ==
    \E type \in EventTypes, keyName \in DOMAIN SDL_KeyMap : KeyboardEvent(type, keyName)

(***************************************************************************)
(* SDLRenderer: ResizeVideo and SDLRenderer.loop                           *)
(***************************************************************************)
TotalScreenWidth == 320
TotalScreenHeight == 256

\* width(scale2x, fullscreen)
width(scale2x, fullscreen) ==
    IF fullscreen \/ scale2x THEN TotalScreenWidth * 2 ELSE TotalScreenWidth

\* height(scale2x, fullscreen)
height(scale2x, fullscreen) ==
    IF fullscreen \/ scale2x THEN TotalScreenHeight * 2 ELSE TotalScreenHeight

\* int16(x): two's-complement wrap to 16 bits.
Int16(x) == ((x + 32768) % 65536) - 32768

\* Go integer division truncates toward zero.
GoDiv(x, y) == IF x >= 0 THEN x \div y ELSE -((-x) \div y)

\* ResizeVideo, lines 194-204: the console offset after the call.
NewConsoleY(r, scale2x) ==
    IF r.scale2x # scale2x
    THEN IF scale2x
         THEN Int16(Int16(2 * r.height) - Int16(2 * Int16(Int16(r.height) - r.consoleY)))
         ELSE Int16(Int16(GoDiv(r.height, 2)) - GoDiv(Int16(Int16(r.height) - r.consoleY), 2))
    ELSE r.consoleY

\* Variant: ResizeVideo starts without telling the core to close its displays.
ResizeVideo_CloseAllDisplays_NotSent ==
    \E c \in Callers :
    /\ rv[c].pc = "idle"
    /\ rv[c].left > 0
    /\ \E scale2x \in BOOLEAN, fullscreen \in BOOLEAN :
          rv' = [rv EXCEPT ![c].pc = "closing", ![c].left = @ - 1,
                           ![c].scale2x = scale2x, ![c].fullscreen = fullscreen]
    /\ UNCHANGED <<kbVars, clientVars, evVars, pc, appVars, handled, mainVars, rd, rCmd,
                   composerInputs, composerOutput, freed, coreDisplays, nextSurface, dc,
                   extVars>>

\* ResizeVideo is called: r.speccy.CommandChannel <- Cmd_CloseAllDisplays{finished};
\* the emulation core drops all its display sinks.
ResizeVideo_CloseAllDisplays ==
    \E c \in Callers :
    /\ rv[c].pc = "idle"
    /\ rv[c].left > 0
    /\ \E scale2x \in BOOLEAN, fullscreen \in BOOLEAN :
          rv' = [rv EXCEPT ![c].pc = "closing", ![c].left = @ - 1,
                           ![c].scale2x = scale2x, ![c].fullscreen = fullscreen]
    /\ coreDisplays' = {}
    /\ UNCHANGED <<kbVars, clientVars, evVars, pc, appVars, handled, mainVars, rd, rCmd,
                   composerInputs, composerOutput, freed, nextSurface, dc, extVars>>

\* <-finished, then lines 194-209: consoleY, width, height, scale2x, fullscreen.
ResizeVideo_Fields ==
    \E c \in Callers :
    /\ rv[c].pc = "closing"
    /\ rd' = [rd EXCEPT !.consoleY = NewConsoleY(rd, rv[c].scale2x),
                        !.width = width(rv[c].scale2x, rv[c].fullscreen),
                        !.height = height(rv[c].scale2x, rv[c].fullscreen),
                        !.scale2x = rv[c].scale2x,
                        !.fullscreen = rv[c].fullscreen]
    /\ rv' = [rv EXCEPT ![c].pc = "newApp"]
    /\ UNCHANGED <<kbVars, clientVars, evVars, pc, appVars, handled, mainVars, rCmd,
                   composerInputs, composerOutput, freed, coreDisplays, nextSurface, dc, extVars>>

\* newAppSurface: <-composer.ReplaceOutputSurface(nil); sdl.SetVideoMode(...);
\* <-composer.ReplaceOutputSurface(surface)
ResizeVideo_NewAppSurface ==
    \E c \in Callers :
    /\ rv[c].pc = "newApp"
    /\ composerOutput' = nextSurface
    /\ nextSurface' = nextSurface + 1
    /\ rv' = [rv EXCEPT ![c].pc = "sendApp", ![c].surface = nextSurface,
                        ![c].app = nextSurface]
    /\ UNCHANGED <<kbVars, clientVars, evVars, pc, appVars, handled, mainVars, rd, rCmd,
                   composerInputs, freed, coreDisplays, dc, extVars>>

\* r.appSurfaceCh <- cmd_newSurface{..., done} meets case cmd := <-r.appSurfaceCh
ResizeVideo_SendAppSurface ==
    \E c \in Callers :
    /\ rv[c].pc = "sendApp"
    /\ pc["renderer"] = "select"
    /\ rCmd' = rv[c].surface
    /\ pc' = [pc EXCEPT !["renderer"] = "app_replaceNil"]
    /\ handled' = [handled EXCEPT !["renderer"] = TRUE]
    /\ rv' = [rv EXCEPT ![c].pc = "waitApp"]
    /\ UNCHANGED <<kbVars, clientVars, evVars, appVars, mainVars, rd, composerInputs,
                   composerOutput, freed, coreDisplays, nextSurface, dc, extVars>>

\* newSpeccySurface: NewSDLScreen[2x](app); speccy.CommandChannel <- Cmd_AddDisplay{sdlScreen}
ResizeVideo_NewSpeccySurface ==
    \E c \in Callers :
    /\ rv[c].pc = "newSpeccy"
    /\ coreDisplays' = coreDisplays \cup {nextSurface}
    /\ nextSurface' = nextSurface + 1
    /\ rv' = [rv EXCEPT ![c].pc = "sendSpeccy", ![c].surface = nextSurface,
                        ![c].speccy = nextSurface]
    /\ UNCHANGED <<kbVars, clientVars, evVars, pc, appVars, handled, mainVars, rd, rCmd,
                   composerInputs, composerOutput, freed, dc, extVars>>

\* r.speccySurfaceCh <- cmd_newSurface{..., done} meets case cmd := <-r.speccySurfaceCh
ResizeVideo_SendSpeccySurface ==
    \E c \in Callers :
    /\ rv[c].pc = "sendSpeccy"
    /\ pc["renderer"] = "select"
    /\ rCmd' = rv[c].surface
    /\ pc' = [pc EXCEPT !["renderer"] = "speccy_removeAll"]
    /\ handled' = [handled EXCEPT !["renderer"] = TRUE]
    /\ rv' = [rv EXCEPT ![c].pc = "waitSpeccy"]
    /\ UNCHANGED <<kbVars, clientVars, evVars, appVars, mainVars, rd, composerInputs,
                   composerOutput, freed, coreDisplays, nextSurface, dc, extVars>>

\* go r.loop() has started; evtLoop := r.app.NewEventLoop()
loop_Start ==
    /\ pc["renderer"] = "spawned"
    /\ NewEventLoop("renderer")
    /\ pc' = [pc EXCEPT !["renderer"] = "registered"]
    /\ UNCHANGED <<kbVars, clientVars, evVars, exitRequested, pauseCh, termCh,
                   pauseReqs, pauseAcks, termAcks, handled, mainVars, rVars, dc, extVars>>

\* shutdown.Add(1)
loop_Add ==
    /\ pc["renderer"] = "registered"
    /\ wgCount' = wgCount + 1
    /\ pc' = [pc EXCEPT !["renderer"] = "select"]
    /\ UNCHANGED <<kbVars, clientVars, evVars, appVars, handled, mainPc, sdlQuit, rVars, dc, extVars>>

loop_Pause == PauseRecv("renderer") \/ PauseEcho("renderer")

loop_Terminate ==
    TerminateRecv("renderer") \/ TerminateEcho("renderer") \/ ShutdownDone("renderer")

\* Variant: the chrome surface is freed while the compositor still has an output.
loop_AppSurface_NoDetach ==
    /\ \/ /\ pc["renderer"] = "app_replaceNil"     \* <-composer.ReplaceOutputSurface(nil)
          /\ composerOutput' = composerOutput
          /\ pc' = [pc EXCEPT !["renderer"] = "app_free"]
          /\ UNCHANGED <<rd, freed, rv, rCmd>>
       \/ /\ pc["renderer"] = "app_free"           \* Free(); r.appSurface = cmd.surface
          /\ freed' = freed \cup {rd.appSurface}
          /\ rd' = [rd EXCEPT !.appSurface = rCmd]
          /\ pc' = [pc EXCEPT !["renderer"] = "app_replace"]
          /\ UNCHANGED <<composerOutput, rv, rCmd>>
       \/ /\ pc["renderer"] = "app_replace"        \* <-composer.ReplaceOutputSurface(...)
          /\ composerOutput' = rd.appSurface
          /\ pc' = [pc EXCEPT !["renderer"] = "app_done"]
          /\ UNCHANGED <<rd, freed, rv, rCmd>>
       \/ /\ pc["renderer"] = "app_done"           \* cmd.done <- true meets <-done
          /\ \E c \in Callers :
                /\ rv[c].pc = "waitApp"
                /\ rv' = [rv EXCEPT ![c].pc = "newSpeccy"]
          /\ rCmd' = NoSurface
          /\ pc' = [pc EXCEPT !["renderer"] = "select"]
          /\ UNCHANGED <<rd, freed, composerOutput>>
    /\ UNCHANGED <<kbVars, clientVars, evVars, appVars, handled, mainVars,
                   composerInputs, coreDisplays, nextSurface, dc, extVars>>

\* case cmd := <-r.appSurfaceCh, statement by statement
loop_AppSurface ==
    /\ \/ /\ pc["renderer"] = "app_replaceNil"     \* <-composer.ReplaceOutputSurface(nil)
          /\ composerOutput' = NoSurface
          /\ pc' = [pc EXCEPT !["renderer"] = "app_free"]
          /\ UNCHANGED <<rd, freed, rv, rCmd>>
       \/ /\ pc["renderer"] = "app_free"           \* Free(); r.appSurface = cmd.surface
          /\ freed' = freed \cup {rd.appSurface}
          /\ rd' = [rd EXCEPT !.appSurface = rCmd]
          /\ pc' = [pc EXCEPT !["renderer"] = "app_replace"]
          /\ UNCHANGED <<composerOutput, rv, rCmd>>
       \/ /\ pc["renderer"] = "app_replace"        \* <-composer.ReplaceOutputSurface(...)
          /\ composerOutput' = rd.appSurface
          /\ pc' = [pc EXCEPT !["renderer"] = "app_done"]
          /\ UNCHANGED <<rd, freed, rv, rCmd>>
       \/ /\ pc["renderer"] = "app_done"           \* cmd.done <- true meets <-done
          /\ \E c \in Callers :
                /\ rv[c].pc = "waitApp"
                /\ rv' = [rv EXCEPT ![c].pc = "newSpeccy"]
          /\ rCmd' = NoSurface
          /\ pc' = [pc EXCEPT !["renderer"] = "select"]
          /\ UNCHANGED <<rd, freed, composerOutput>>
    /\ UNCHANGED <<kbVars, clientVars, evVars, appVars, handled, mainVars,
                   composerInputs, coreDisplays, nextSurface, dc, extVars>>

\* Variant: the display surface is swapped without removing the registered inputs.
loop_SpeccySurface_NoRemove ==
    /\ \/ /\ pc["renderer"] = "speccy_removeAll"   \* <-composer.RemoveAllInputSurfaces()
          /\ composerInputs' = composerInputs
          /\ pc' = [pc EXCEPT !["renderer"] = "speccy_free"]
          /\ UNCHANGED <<rd, freed, rv, rCmd>>
       \/ /\ pc["renderer"] = "speccy_free"        \* Free(); r.speccySurface = cmd.surface
          /\ freed' = freed \cup {rd.speccySurface}
          /\ rd' = [rd EXCEPT !.speccySurface = rCmd]
          /\ pc' = [pc EXCEPT !["renderer"] = "speccy_add"]
          /\ UNCHANGED <<composerInputs, rv, rCmd>>
       \/ /\ pc["renderer"] = "speccy_add"         \* composer.AddInputSurface(...)
          /\ composerInputs' = composerInputs \cup {rd.speccySurface}
          /\ pc' = [pc EXCEPT !["renderer"] = "speccy_done"]
          /\ UNCHANGED <<rd, freed, rv, rCmd>>
       \/ /\ pc["renderer"] = "speccy_done"        \* cmd.done <- true meets <-done
          /\ \E c \in Callers :
                /\ rv[c].pc = "waitSpeccy"
                /\ rv' = [rv EXCEPT ![c].pc = "idle"]
          /\ rCmd' = NoSurface
          /\ pc' = [pc EXCEPT !["renderer"] = "select"]
          /\ UNCHANGED <<rd, freed, composerInputs>>
    /\ UNCHANGED <<kbVars, clientVars, evVars, appVars, handled, mainVars,
                   composerOutput, coreDisplays, nextSurface, dc, extVars>>

\* case cmd := <-r.speccySurfaceCh, statement by statement
loop_SpeccySurface ==
    /\ \/ /\ pc["renderer"] = "speccy_removeAll"   \* <-composer.RemoveAllInputSurfaces()
          /\ composerInputs' = {}
          /\ pc' = [pc EXCEPT !["renderer"] = "speccy_free"]
          /\ UNCHANGED <<rd, freed, rv, rCmd>>
       \/ /\ pc["renderer"] = "speccy_free"        \* Free(); r.speccySurface = cmd.surface
          /\ freed' = freed \cup {rd.speccySurface}
          /\ rd' = [rd EXCEPT !.speccySurface = rCmd]
          /\ pc' = [pc EXCEPT !["renderer"] = "speccy_add"]
          /\ UNCHANGED <<composerInputs, rv, rCmd>>
       \/ /\ pc["renderer"] = "speccy_add"         \* composer.AddInputSurface(...)
          /\ composerInputs' = composerInputs \cup {rd.speccySurface}
          /\ pc' = [pc EXCEPT !["renderer"] = "speccy_done"]
          /\ UNCHANGED <<rd, freed, rv, rCmd>>
       \/ /\ pc["renderer"] = "speccy_done"        \* cmd.done <- true meets <-done
          /\ \E c \in Callers :
                /\ rv[c].pc = "waitSpeccy"
                /\ rv' = [rv EXCEPT ![c].pc = "idle"]
          /\ rCmd' = NoSurface
          /\ pc' = [pc EXCEPT !["renderer"] = "select"]
          /\ UNCHANGED <<rd, freed, composerInputs>>
    /\ UNCHANGED <<kbVars, clientVars, evVars, appVars, handled, mainVars,
                   composerOutput, coreDisplays, nextSurface, dc, extVars>>

(***************************************************************************)
(* sdlEventLoop: joystick events                                           *)
(***************************************************************************)
KempstonBits == {"KEMPSTON_RIGHT", "KEMPSTON_LEFT", "KEMPSTON_DOWN", "KEMPSTON_UP",
                 "KEMPSTON_FIRE"}

\* speccy.Joystick.KempstonDown(bit) / KempstonUp(bit)
KempstonDown(k, bit) == k \cup {bit}
KempstonUp(k, bit) == k \ {bit}

\* Variant: centring axis 0 releases only one of its two directions.
JoyAxisEvent_CenterClearsOne(k, axis, value) ==
    IF axis = 0
    THEN IF value > 0 THEN KempstonDown(k, "KEMPSTON_RIGHT")
         ELSE IF value < 0 THEN KempstonDown(k, "KEMPSTON_LEFT")
         ELSE KempstonUp(k, "KEMPSTON_RIGHT")
    ELSE IF axis = 1
    THEN IF value > 0 THEN KempstonDown(k, "KEMPSTON_UP")
         ELSE IF value < 0 THEN KempstonDown(k, "KEMPSTON_DOWN")
         ELSE KempstonUp(KempstonUp(k, "KEMPSTON_UP"), "KEMPSTON_DOWN")
    ELSE k

\* case sdl.JoyAxisEvent: the Kempston state after the event.
JoyAxisEvent(k, axis, value) ==
    IF axis = 0
    THEN IF value > 0 THEN KempstonDown(k, "KEMPSTON_RIGHT")
         ELSE IF value < 0 THEN KempstonDown(k, "KEMPSTON_LEFT")
         ELSE KempstonUp(KempstonUp(k, "KEMPSTON_RIGHT"), "KEMPSTON_LEFT")
    ELSE IF axis = 1
    THEN IF value > 0 THEN KempstonDown(k, "KEMPSTON_UP")
         ELSE IF value < 0 THEN KempstonDown(k, "KEMPSTON_DOWN")
         ELSE KempstonUp(KempstonUp(k, "KEMPSTON_UP"), "KEMPSTON_DOWN")
    ELSE k

\* case sdl.JoyButtonEvent: the Kempston state after the event.
JoyButtonEvent(k, button, state) ==
    IF button = 0
    THEN IF state > 0 THEN KempstonDown(k, "KEMPSTON_FIRE")
         ELSE KempstonUp(k, "KEMPSTON_FIRE")
    ELSE k

\* No joystick event handled yet; the stick will deliver n events.
NoJoyEvent(n) ==
    [kind |-> "none", axis |-> 0, value |-> 0, button |-> 0, state |-> 0,
     before |-> {}, keys |-> ResetKeyStates, left |-> n]

\* case sdl.JoyAxisEvent, for the axes (uint8) and values (int16) a stick delivers
sdlEventLoop_JoyAxisEvent ==
    /\ pc["sdl"] = "select"
    /\ joyLast.left > 0
    /\ \E axis \in 0 .. 2, value \in {-32768, -1, 0, 1, 32767} :
          /\ kempston' = JoyAxisEvent(kempston, axis, value)
          /\ joyLast' = [kind |-> "axis", axis |-> axis, value |-> value, button |-> 0,
                         state |-> 0, before |-> kempston, keys |-> keyStates,
                         left |-> joyLast.left - 1]
    /\ handled' = [handled EXCEPT !["sdl"] = TRUE]
    /\ UNCHANGED <<kbVars, clientVars, evVars, pc, appVars, mainVars, rVars, dc,
                   audioVars, selfCheck, loadVars, moreVars>>

\* case sdl.JoyButtonEvent, for the buttons and states (uint8) a stick delivers
sdlEventLoop_JoyButtonEvent ==
    /\ pc["sdl"] = "select"
    /\ joyLast.left > 0
    /\ \E button \in 0 .. 1, state \in 0 .. 1 :
          /\ kempston' = JoyButtonEvent(kempston, button, state)
          /\ joyLast' = [kind |-> "button", axis |-> 0, value |-> 0, button |-> button,
                         state |-> state, before |-> kempston, keys |-> keyStates,
                         left |-> joyLast.left - 1]
    /\ handled' = [handled EXCEPT !["sdl"] = TRUE]
    /\ UNCHANGED <<kbVars, clientVars, evVars, pc, appVars, mainVars, rVars, dc,
                   audioVars, selfCheck, loadVars, moreVars>>

\* Keyboard events of device keys that have no entry in the symbol table.
sdlEventLoop_UnmappedKeyboardEvent ==
    \E type \in EventTypes, keyName \in {"escape", "f1"} : KeyboardEvent(type, keyName)

(***************************************************************************)
(* spectrum: the start-up self-check of the key tables (func init)         *)
(***************************************************************************)
AllKeys == DOMAIN keyCodes

\* The symbol table without the entries named in 'removed'.
KeyMapWithout(removed) == [n \in (DOMAIN SDL_KeyMap) \ removed |-> SDL_KeyMap[n]]

\* Variant: every key of every sequence counts as used.
init_CountsEverySequence(keyTable, keyMap) ==
    IF Cardinality(keyTable) # 40
    THEN "panic: invalid keyboard specification"
    ELSE LET used == UNION {{keyMap[n][i] : i \in 1 .. Len(keyMap[n])} : n \in DOMAIN keyMap}
         IN IF keyTable \subseteq used THEN "ok"
            ELSE "panic: some key is missing in the SDL keymap"

\* func init(): keyTable stands for the keys of keyCodes, keyMap for SDL_KeyMap.
\* used[seq[0]] = true only for the sequences of length 1.
init(keyTable, keyMap) ==
    IF Cardinality(keyTable) # 40
    THEN "panic: invalid keyboard specification"
    ELSE LET used == {keyMap[n][1] : n \in {m \in DOMAIN keyMap : Len(keyMap[m]) = 1}}
         IN IF keyTable \subseteq used THEN "ok"
            ELSE "panic: some key is missing in the SDL keymap"

\* The package initialiser runs on the tables it is given.
spectrum_init ==
    /\ selfCheck.result = "pending"
    /\ selfCheck' = [selfCheck EXCEPT
                        !.result = init(selfCheck.keys, KeyMapWithout(selfCheck.removed))]
    /\ UNCHANGED <<kbVars, clientVars, evVars, pc, appVars, handled, mainVars, rVars, dc,
                   audioVars, joyVars, loadVars, moreVars>>

(***************************************************************************)
(* SDLRenderer: EnableAudio, SetAudioFreq, SetAudioQuality                 *)
(*   setAudioParameters runs in the caller's goroutine and talks to the    *)
(*   emulation core over speccy.CommandChannel                             *)
(***************************************************************************)
\* Values of the -audio-freq setting a caller may pass.
AudioFreqs == {44100, 22050}

NoAudio == 0

AcIdle(n, id) ==
    [pc |-> "idle", left |-> n, op |-> "none", enable |-> FALSE, hqAudio |-> FALSE,
     freq |-> 0, audio |-> NoAudio, nextId |-> id, result |-> "none"]

\* The emulation core handles Cmd_CloseAllAudioReceivers: no receiver stays.
CloseAllAudioReceivers(receivers) == {}

\* The emulation core handles Cmd_AddAudioReceiver{audio}.
AddAudioReceiver(receivers, audio) == receivers \cup {audio}

\* A call enters setAudioParameters(enable, hqAudio, freq).
AudioCall(op, enable, hqAudio, freq) ==
    /\ ac' = [ac EXCEPT !.pc = "params", !.left = @ - 1, !.op = op, !.enable = enable,
                        !.hqAudio = hqAudio, !.freq = freq, !.audio = NoAudio,
                        !.result = "none"]
    /\ audioEvents' = << >>

\* A call returns without entering setAudioParameters.
AudioNoCall(op) ==
    /\ ac' = [ac EXCEPT !.left = @ - 1, !.op = op, !.audio = NoAudio,
                        !.result = "unchanged"]
    /\ audioEvents' = << >>

\* r.setAudioParameters(enable, r.hqAudio, r.audioFreq)
EnableAudio ==
    /\ ac.pc = "idle"
    /\ ac.left > 0
    /\ \E enable \in BOOLEAN :
          AudioCall("EnableAudio", enable, audioCfg.hqAudio, audioCfg.audioFreq)
    /\ UNCHANGED <<kbVars, clientVars, evVars, pc, appVars, handled, mainVars, rVars, dc,
                   audioCfg, audioReceivers, audioMsgs, joyVars, selfCheck, loadVars, moreVars>>

\* if r.audioFreq != freq { r.setAudioParameters(r.audio, r.hqAudio, freq) }
SetAudioFreq ==
    /\ ac.pc = "idle"
    /\ ac.left > 0
    /\ \E freq \in AudioFreqs :
          IF audioCfg.audioFreq # freq
          THEN AudioCall("SetAudioFreq", audioCfg.audio, audioCfg.hqAudio, freq)
          ELSE AudioNoCall("SetAudioFreq")
    /\ UNCHANGED <<kbVars, clientVars, evVars, pc, appVars, handled, mainVars, rVars, dc,
                   audioCfg, audioReceivers, audioMsgs, joyVars, selfCheck, loadVars, moreVars>>

\* if r.hqAudio != hqAudio { r.setAudioParameters(r.audio, hqAudio, r.audioFreq) }
SetAudioQuality ==
    /\ ac.pc = "idle"
    /\ ac.left > 0
    /\ \E hqAudio \in BOOLEAN :
          IF audioCfg.hqAudio # hqAudio
          THEN AudioCall("SetAudioQuality", audioCfg.audio, hqAudio, audioCfg.audioFreq)
          ELSE AudioNoCall("SetAudioQuality")
    /\ UNCHANGED <<kbVars, clientVars, evVars, pc, appVars, handled, mainVars, rVars, dc,
                   audioCfg, audioReceivers, audioMsgs, joyVars, selfCheck, loadVars, moreVars>>

\* r.audio = enable; r.hqAudio = hqAudio; r.audioFreq = freq
setAudioParameters_Fields ==
    /\ ac.pc = "params"
    /\ audioCfg' = [audio |-> ac.enable, hqAudio |-> ac.hqAudio, audioFreq |-> ac.freq]
    /\ ac' = [ac EXCEPT !.pc = "close1"]
    /\ UNCHANGED <<kbVars, clientVars, evVars, pc, appVars, handled, mainVars, rVars, dc,
                   audioReceivers, audioEvents, audioMsgs, joyVars, selfCheck, loadVars, moreVars>>

\* r.speccy.CommandChannel <- spectrum.Cmd_CloseAllAudioReceivers{finished}:
\* the first send of the call or the one after NewSDLAudio succeeded.
setAudioParameters_CloseAll ==
    /\ ac.pc \in {"close1", "close2"}
    /\ audioReceivers' = CloseAllAudioReceivers(audioReceivers)
    /\ audioEvents' = Append(audioEvents, "CloseAllAudioReceivers")
    /\ ac' = [ac EXCEPT !.pc = IF ac.pc = "close1" THEN "finished1" ELSE "finished2"]
    /\ UNCHANGED <<kbVars, clientVars, evVars, pc, appVars, handled, mainVars, rVars, dc,
                   audioCfg, audioMsgs, joyVars, selfCheck, loadVars, moreVars>>

\* <-finished; after the first one: if enable { ... } else the call returns.
setAudioParameters_Finished ==
    /\ ac.pc \in {"finished1", "finished2"}
    /\ ac' = IF ac.pc = "finished2"
             THEN [ac EXCEPT !.pc = "add"]
             ELSE IF ac.enable
                  THEN [ac EXCEPT !.pc = "newAudio"]
                  ELSE [ac EXCEPT !.pc = "idle", !.result = "disabled"]
    /\ UNCHANGED <<kbVars, clientVars, evVars, pc, appVars, handled, mainVars, rVars, dc,
                   audioCfg, audioReceivers, audioEvents, audioMsgs, joyVars, selfCheck, loadVars, moreVars>>

\* Variant: the new receiver is registered right after NewSDLAudio.
AfterNewSDLAudio_NoSecondClose == "add"

\* The statement reached when NewSDLAudio returned no error: the second
\* Cmd_CloseAllAudioReceivers send.
AfterNewSDLAudio == "close2"

\* Variant: a failed acquisition still hands a receiver to the core.
AfterNewSDLAudioError_Registers == "add"

\* The statement reached when NewSDLAudio returned an error: return.
AfterNewSDLAudioError == "idle"

\* audio, err := NewSDLAudio(r.app, freq, hqAudio): the backend is acquired
\* or not; on failure r.app.PrintfMsg("%s", err); return
setAudioParameters_NewSDLAudio ==
    /\ ac.pc = "newAudio"
    /\ \E ok \in BOOLEAN :
          IF ok
          THEN /\ ac' = [ac EXCEPT !.pc = AfterNewSDLAudio,
                                   !.audio = ac.nextId, !.nextId = @ + 1]
               /\ UNCHANGED audioMsgs
          ELSE /\ ac' = [ac EXCEPT !.pc = AfterNewSDLAudioError, !.result = "failed"]
               /\ audioMsgs' = audioMsgs + 1
    /\ UNCHANGED <<kbVars, clientVars, evVars, pc, appVars, handled, mainVars, rVars, dc,
                   audioCfg, audioReceivers, audioEvents, joyVars, selfCheck, loadVars, moreVars>>

\* r.speccy.CommandChannel <- spectrum.Cmd_AddAudioReceiver{audio}
setAudioParameters_AddAudioReceiver ==
    /\ ac.pc = "add"
    /\ audioReceivers' = AddAudioReceiver(audioReceivers, ac.audio)
    /\ audioEvents' = Append(audioEvents, "AddAudioReceiver")
    /\ ac' = [ac EXCEPT !.pc = "idle",
                        !.result = IF @ = "none" THEN "registered" ELSE @]
    /\ UNCHANGED <<kbVars, clientVars, evVars, pc, appVars, handled, mainVars, rVars, dc,
                   audioCfg, audioMsgs, joyVars, selfCheck, loadVars, moreVars>>

(***************************************************************************)
(* Main (output/sdl)                                                       *)
(***************************************************************************)

\* initSDLSubSystems fails: app.RequestExit(); return
Main_InitFailed ==
    /\ mainPc = "start"
    /\ RequestExit
    /\ mainPc' = "returned"
    /\ UNCHANGED <<kbVars, clientVars, evVars, pc, registered, pauseCh, termCh,
                   pauseReqs, pauseAcks, termAcks, handled, wgCount, sdlQuit, rVars, dc, extVars>>

\* r = NewSDLRenderer(...): the first chrome and display surfaces are built and
\* installed, the audio settings are taken from the flags, then go r.loop().
Main_NewSDLRenderer ==
    /\ mainPc = "start"
    /\ \E scale2x \in BOOLEAN, fullscreen \in BOOLEAN :
          rd' = [scale2x |-> scale2x, fullscreen |-> fullscreen, consoleY |-> 0,
                 width |-> width(scale2x, fullscreen),
                 height |-> height(scale2x, fullscreen),
                 appSurface |-> nextSurface, speccySurface |-> nextSurface + 1]
    /\ \E audio \in BOOLEAN :
          audioCfg' = [audio |-> audio, hqAudio |-> TRUE, audioFreq |-> 44100]
    /\ composerOutput' = nextSurface
    /\ coreDisplays' = {nextSurface + 1}
    /\ composerInputs' = {nextSurface + 1}
    /\ nextSurface' = nextSurface + 2
    /\ pc' = [pc EXCEPT !["renderer"] = "spawned"]
    /\ mainPc' = "audio"
    /\ UNCHANGED <<kbVars, clientVars, evVars, appVars, handled, wgCount, sdlQuit,
                   rCmd, freed, rv, dc, ac, audioReceivers, audioEvents, audioMsgs,
                   joyVars, selfCheck, loadVars, moreVars>>

\* if *Audio { audio, err := NewSDLAudio(...); if err == nil
\*   { speccy.CommandChannel <- Cmd_AddAudioReceiver{audio} } else { PrintfMsg } }
Main_SetupAudio ==
    /\ mainPc = "audio"
    /\ IF audioCfg.audio
       THEN \E ok \in BOOLEAN :
               IF ok
               THEN /\ audioReceivers' = AddAudioReceiver(audioReceivers, ac.nextId)
                    /\ ac' = [ac EXCEPT !.nextId = @ + 1]
                    /\ UNCHANGED audioMsgs
               ELSE /\ audioMsgs' = audioMsgs + 1
                    /\ UNCHANGED <<audioReceivers, ac>>
       ELSE UNCHANGED <<audioReceivers, ac, audioMsgs>>
    /\ mainPc' = "goEventLoop"
    /\ UNCHANGED <<kbVars, clientVars, evVars, pc, appVars, handled, wgCount, sdlQuit,
                   rVars, dc, audioCfg, audioEvents, joyVars, selfCheck, loadVars, moreVars>>

\* go sdlEventLoop(app, speccy, *verboseInput)
Main_GoEventLoop ==
    /\ mainPc = "goEventLoop"
    /\ pc' = [pc EXCEPT !["sdl"] = "spawned"]
    /\ mainPc' = "wait"
    /\ UNCHANGED <<kbVars, clientVars, evVars, appVars, handled, wgCount, sdlQuit, rVars, dc, extVars>>

\* shutdown.Wait() returns: the WaitGroup counter is zero.
Main_Wait ==
    /\ mainPc = "wait"
    /\ wgCount = 0
    /\ mainPc' = "quit"
    /\ UNCHANGED <<kbVars, clientVars, evVars, pc, appVars, handled, wgCount, sdlQuit,
                   rVars, dc, extVars>>

\* sdl.Quit()
Main_Quit ==
    /\ mainPc = "quit"
    /\ sdlQuit' = sdlQuit + 1
    /\ mainPc' = "returned"
    /\ UNCHANGED <<kbVars, clientVars, evVars, pc, appVars, handled, wgCount, rVars, dc, extVars>>

(***************************************************************************)
(* Keyboard.mutex (sync.RWMutex) around the accesses of keyStates          *)
(*   Lock excludes other writers at once and new readers from then on,     *)
(*   and returns when the active readers have left; Unlock admits the      *)
(*   readers that were blocked meanwhile before any later writer           *)
(***************************************************************************)
MutexFree == [w |-> "", r |-> {}, rq |-> {}]

\* mutex.Lock() by t is under way; it has returned when no reader is active.
Mutex_Lock(m, t) == [m EXCEPT !.w = t]

\* t is inside its critical section.
Mutex_Holds(m, t) == m.w = t /\ m.r = {}

\* Variant: Unlock leaves the blocked readers blocked.
Mutex_Unlock_KeepsReadersBlocked(m) == [m EXCEPT !.w = ""]

\* mutex.Unlock(): the readers blocked behind the writer become active.
Mutex_Unlock(m) == [m EXCEPT !.w = "", !.r = m.rq, !.rq = {}]

\* mutex.RLock() by t: granted at once unless a writer holds or waits.
Mutex_RLock(m, t) ==
    IF m.w = "" THEN [m EXCEPT !.r = @ \cup {t}] ELSE [m EXCEPT !.rq = @ \cup {t}]

\* mutex.RUnlock() by t
Mutex_RUnlock(m, t) == [m EXCEPT !.r = @ \ {t}]

GkInit(n) ==
    [pc |-> "idle", left |-> n, row |-> 0, during |-> FALSE, waited |-> 0,
     value |-> 0, got |-> 0]

\* A writer leaves its critical section: a blocked GetKeyState has waited
\* for one more critical section.
GkAfterUnlock ==
    IF "core" \in mu.rq THEN [gk EXCEPT !.waited = @ + 1] ELSE gk

\* The command is at a KeyDown / KeyUp of a key of the table.
KbAtKeyAccess ==
    /\ pc["keyboard"] = "cmd"
    /\ KbStmt.op \in {"KeyDown", "KeyUp"}
    /\ KbStmt.arg \in DOMAIN keyCodes

\* keyboard.mutex.Lock() in KeyDown / KeyUp called by commandLoop
commandLoop_KeyLock ==
    /\ KbAtKeyAccess
    /\ mu.w = ""
    /\ mu' = Mutex_Lock(mu, "keyboard")
    /\ UNCHANGED <<kbVars, clientVars, evVars, pc, appVars, handled, mainVars, rVars, dc,
                   audioVars, joyVars, selfCheck, loadVars, gk,
                   chordVars, memVars>>

\* keyStates[row] &= ^mask or |= mask; keyboard.mutex.Unlock(); the call returns
commandLoop_KeyUnlock ==
    /\ KbAtKeyAccess
    /\ Mutex_Holds(mu, "keyboard")
    /\ keyStates' = IF KbStmt.op = "KeyDown" THEN KeyDown(keyStates, KbStmt.arg)
                    ELSE KeyUp(keyStates, KbStmt.arg)
    /\ KbAdvance
    /\ mu' = Mutex_Unlock(mu)
    /\ gk' = GkAfterUnlock
    /\ UNCHANGED <<clientVars, evVars, appVars, handled, mainVars, rVars, dc,
                   audioVars, joyVars, selfCheck, loadVars,
                   chordVars, memVars>>

\* GetKeyState(row): keyboard.mutex.RLock()
GetKeyState_RLock ==
    /\ gk.pc = "idle"
    /\ gk.left > 0
    /\ \E row \in Rows :
          gk' = [gk EXCEPT !.pc = "rlock", !.left = @ - 1, !.row = row,
                           !.during = (kbCmd # NoCmd), !.waited = 0]
    /\ mu' = Mutex_RLock(mu, "core")
    /\ UNCHANGED <<kbVars, clientVars, evVars, pc, appVars, handled, mainVars, rVars, dc,
                   audioVars, joyVars, selfCheck, loadVars,
                   chordVars, memVars>>

\* keyState := keyStates[row]; keyboard.mutex.RUnlock(); return keyState
GetKeyState_Return ==
    /\ gk.pc = "rlock"
    /\ "core" \in mu.r
    /\ gk' = [gk EXCEPT !.pc = "idle", !.value = GetKeyState(keyStates, gk.row),
                        !.got = @ + 1]
    /\ mu' = Mutex_RUnlock(mu, "core")
    /\ UNCHANGED <<kbVars, clientVars, evVars, pc, appVars, handled, mainVars, rVars, dc,
                   audioVars, joyVars, selfCheck, loadVars,
                   chordVars, memVars>>

(***************************************************************************)
(* spectrum.Memory: Read and Write                                         *)
(***************************************************************************)
\* Start of the screen bitmap and of the screen attributes.
SCREEN_BASE_ADDR == 16384
ATTR_BASE_ADDR == 22528
\* End of the screen attributes (0x5b00) and start of RAM (0x4000) as written
\* in Memory.Write.
AttrEnd == 23296
RamStart == 16384

\* Sampled addresses (uint16): the ends of ROM, screen bitmap, screen
\* attributes and the remaining RAM.
MemAddrs == {0, 16383, 16384, 22527, 22528, 23295, 23296, 65535}
\* Sampled byte values.
MemValues == {0, 1, 255}

NoRead == [address |-> -1, value |-> -1]
MwInit(n) ==
    [pc |-> "idle", left |-> n, calls |-> 0, address |-> 0, value |-> 0,
     before |-> [a \in MemAddrs |-> 0], logBefore |-> << >>, read |-> NoRead]

\* Memory.Read(address)
Memory_Read(data, address) == data[address]

\* The first statement of Memory.Write: the if / else if that calls the ULA
\* with the byte held at the address and the new value.
Memory_Notify(log, data, address, value) ==
    IF address >= SCREEN_BASE_ADDR /\ address < ATTR_BASE_ADDR
    THEN Append(log, [fn |-> "screenBitmapWrite", address |-> address,
                      old |-> data[address], new |-> value])
    ELSE IF address >= ATTR_BASE_ADDR /\ address < AttrEnd
    THEN Append(log, [fn |-> "screenAttrWrite", address |-> address,
                      old |-> data[address], new |-> value])
    ELSE log

\* Variant: the byte is stored at every address.
Memory_Store_AnyAddress(data, address, value) == [data EXCEPT ![address] = value]

\* The second statement of Memory.Write: if address >= 0x4000 { data[address] = value }
Memory_Store(data, address, value) ==
    IF address >= RamStart THEN [data EXCEPT ![address] = value] ELSE data

\* Memory.Write(address, value) is entered and runs its first statement.
Memory_Write_Notify ==
    /\ mw.pc = "idle"
    /\ mw.left > 0
    /\ \E address \in MemAddrs, value \in MemValues :
          /\ ulaLog' = Memory_Notify(ulaLog, memData, address, value)
          /\ mw' = [mw EXCEPT !.pc = "store", !.left = @ - 1, !.calls = @ + 1,
                              !.address = address, !.value = value,
                              !.before = memData, !.logBefore = ulaLog,
                              !.read = NoRead]
    /\ UNCHANGED memData
    /\ UNCHANGED <<kbVars, clientVars, evVars, pc, appVars, handled, mainVars, rVars, dc,
                   audioVars, joyVars, selfCheck, loadVars, lockVars, chordVars>>

\* Memory.Write runs its second statement and returns.
Memory_Write_Store ==
    /\ mw.pc = "store"
    /\ memData' = Memory_Store(memData, mw.address, mw.value)
    /\ mw' = [mw EXCEPT !.pc = "idle"]
    /\ UNCHANGED ulaLog
    /\ UNCHANGED <<kbVars, clientVars, evVars, pc, appVars, handled, mainVars, rVars, dc,
                   audioVars, joyVars, selfCheck, loadVars, lockVars, chordVars>>

\* Memory.Read(address) called after a Write has returned.
Memory_Read_Call ==
    /\ mw.pc = "idle"
    /\ mw.calls > 0
    /\ \E address \in MemAddrs :
          mw' = [mw EXCEPT !.read = [address |-> address,
                                     value |-> Memory_Read(memData, address)]]
    /\ UNCHANGED <<memData, ulaLog>>
    /\ UNCHANGED <<kbVars, clientVars, evVars, pc, appVars, handled, mainVars, rVars, dc,
                   audioVars, joyVars, selfCheck, loadVars, lockVars, chordVars>>

(***************************************************************************)
(* Direct calls of KeyDown / KeyUp on a given matrix                       *)
(***************************************************************************)
\* keyboard.KeyDown(dc.key)
Keyboard_KeyDown ==
    /\ dc.pc = "start"
    /\ dc' = [dc EXCEPT !.pc = "down", !.before = keyStates, !.beforeDown = keyStates]
    /\ keyStates' = KeyDown(keyStates, dc.key)
    /\ UNCHANGED <<kbCmd, kbStep, kbTrace, kbForeign, clientVars, evVars, pc, appVars,
                   handled, mainVars, rVars, extVars>>

\* keyboard.KeyUp(dc.key), as the first call or right after KeyDown(dc.key)
Keyboard_KeyUp ==
    /\ dc.pc \in {"start", "down"}
    /\ dc' = [dc EXCEPT !.pc = IF dc.pc = "down" THEN "downUp" ELSE "up",
                        !.before = keyStates]
    /\ keyStates' = KeyUp(keyStates, dc.key)
    /\ UNCHANGED <<kbCmd, kbStep, kbTrace, kbForeign, clientVars, evVars, pc, appVars,
                   handled, mainVars, rVars, extVars>>

(***************************************************************************)
(* Initial states                                                          *)
(***************************************************************************)
PrInit(n) == [pc |-> "idle", left |-> n, chan |-> 0, calls |-> 0, got |-> 0]
SqInit(state) == [pc |-> state, keys |-> << >>, sent |-> 0, cap |-> 0, buf |-> 0, got |-> 0]
RvInit(n) == [pc |-> "idle", left |-> n, scale2x |-> FALSE, fullscreen |-> FALSE,
              surface |-> NoSurface, app |-> NoSurface, speccy |-> NoSurface]

\* The first caller of ResizeVideo makes n1 calls, the second n2.
RvCallers(n1, n2) == [c \in Callers |-> RvInit(IF c = 1 THEN n1 ELSE n2)]
DcInit(state, key) ==
    [pc |-> state, key |-> key, before |-> ResetKeyStates, beforeDown |-> ResetKeyStates]

\* Nobody holds or waits for Keyboard.mutex and no GetKeyState call is made.
InitMutex ==
    /\ mu = MutexFree
    /\ gk = GkInit(0)

\* The user has not touched a device key.
InitChord == userChord = 0

\* NewMemory: all bytes are zero, the ULA has not been called; n calls of
\* Memory.Write will be made.
InitMemory(n) ==
    /\ memData = [a \in MemAddrs |-> 0]
    /\ ulaLog = << >>
    /\ mw = MwInit(n)

\* The components that take no step in a specification.
InitMore == InitMutex /\ InitChord /\ InitMemory(0)

\* No command or event is being handled; the loops' bookkeeping is empty.
InitLoops ==
    /\ kbCmd = NoCmd
    /\ kbStep = 0
    /\ kbTrace = << >>
    /\ kbForeign = {}
    /\ evCur = NoEv
    /\ evIdx = 0
    /\ evTrace = << >>
    /\ userHeld = {}
    /\ exitRequested = FALSE
    /\ pauseCh = [a \in Actors |-> "idle"]
    /\ termCh = [a \in Actors |-> "idle"]
    /\ pauseReqs = [a \in Actors |-> 0]
    /\ pauseAcks = [a \in Actors |-> 0]
    /\ termAcks = [a \in Actors |-> 0]
    /\ handled = [a \in Actors |-> FALSE]
    /\ sdlQuit = 0
    /\ rCmd = NoSurface
    /\ freed = {}

\* The process as main() leaves it before sdl_output.Main runs: the keyboard
\* loop goroutine has been started by Keyboard.init, nothing of SDL exists.
InitProcess ==
    /\ InitLoops
    /\ keyStates = ResetKeyStates
    /\ pc = [a \in Actors |-> IF a = "keyboard" THEN "spawned" ELSE "unstarted"]
    /\ registered = {}
    /\ mainPc = "start"
    /\ wgCount = 0
    /\ rd = [scale2x |-> FALSE, fullscreen |-> FALSE, consoleY |-> 0, width |-> 0,
             height |-> 0, appSurface |-> NoSurface, speccySurface |-> NoSurface]
    /\ composerInputs = {}
    /\ composerOutput = NoSurface
    /\ coreDisplays = {}
    /\ nextSurface = 1

\* The process once start-up is over: the three loops wait in their select,
\* both SDL loops have registered with the barrier, Main waits on it. The
\* renderer is in the given video mode with the console overlay at consoleY.
InitRunningIn(scale2x, fullscreen, consoleY) ==
    /\ InitLoops
    /\ pc = [a \in Actors |-> "select"]
    /\ registered = Actors
    /\ mainPc = "wait"
    /\ wgCount = 2
    /\ rd = [scale2x |-> scale2x, fullscreen |-> fullscreen, consoleY |-> consoleY,
             width |-> width(scale2x, fullscreen),
             height |-> height(scale2x, fullscreen),
             appSurface |-> 1, speccySurface |-> 2]
    /\ composerInputs = {2}
    /\ composerOutput = 1
    /\ coreDisplays = {2}
    /\ nextSurface = 3

InitRunning == InitRunningIn(FALSE, FALSE, 0)

\* No joystick event has been handled.
InitJoystick ==
    /\ kempston = {}
    /\ joyLast = NoJoyEvent(0)

\* The package initialiser has run on the tables of the source and passed.
InitSelfCheckPassed ==
    selfCheck = [keys |-> AllKeys, removed |-> {}, result |-> init(AllKeys, SDL_KeyMap)]

\* Audio as Main leaves it with the default flags and a working backend;
\* nobody changes the audio settings.
InitAudio ==
    /\ audioCfg = [audio |-> TRUE, hqAudio |-> TRUE, audioFreq |-> 44100]
    /\ audioReceivers = {1}
    /\ ac = AcIdle(0, 2)
    /\ audioEvents = << >>
    /\ audioMsgs = 0

\* Audio before Main has set it up.
InitAudioUnset ==
    /\ audioCfg = [audio |-> FALSE, hqAudio |-> FALSE, audioFreq |-> 0]
    /\ audioReceivers = {}
    /\ ac = AcIdle(0, 1)
    /\ audioEvents = << >>
    /\ audioMsgs = 0

(***************************************************************************)
(* Spec: the keyboard actor with scripted commands and live device keys    *)
(***************************************************************************)
Init ==
    /\ InitRunning
    /\ InitAudio
    /\ InitJoystick
    /\ InitSelfCheckPassed
    /\ keyStates = ResetKeyStates
    /\ pr = PrInit(MaxPresses)
    /\ sq = SqInit("off")
    /\ ldLeft = MaxLoads
    /\ ldRom = ""
    /\ InitMore
    /\ userLeft = MaxUserKeys
    /\ rv = RvCallers(0, 0)
    /\ dc = DcInit("off", 0)

Next ==
    \/ commandLoop_Terminate
    \/ commandLoop_KeyDown
    \/ commandLoop_KeyUp
    \/ commandLoop_Delay
    \/ commandLoop_DoneUnbuffered
    \/ KeyPress_Call
    \/ KeyPress_Abandon
    \/ SendLoad
    \/ sdlEventLoop_KeyboardEvent
    \/ sdlEventLoop_KeyStep
    \/ ExternalRequestExit

Spec == Init /\ [][Next]_vars

(***************************************************************************)
(* SpecSeq: KeyPressSequence next to a competing KeyPress client           *)
(***************************************************************************)
InitSeq ==
    /\ InitRunning
    /\ InitAudio
    /\ InitJoystick
    /\ InitSelfCheckPassed
    /\ keyStates = ResetKeyStates
    /\ pr = PrInit(1)
    /\ sq = SqInit("idle")
    /\ ldLeft = 0
    /\ ldRom = ""
    /\ InitMore
    /\ userLeft = 0
    /\ rv = RvCallers(0, 0)
    /\ dc = DcInit("off", 0)

NextSeq ==
    \/ commandLoop_Pause
    \/ commandLoop_Terminate
    \/ commandLoop_KeyDown
    \/ commandLoop_KeyUp
    \/ commandLoop_Delay
    \/ commandLoop_DoneUnbuffered
    \/ commandLoop_DoneBuffered
    \/ KeyPress_Call
    \/ KeyPress_Abandon
    \/ KeyPressSequence_Call
    \/ KeyPressSequence_Send
    \/ KeyPressSequence_Receive
    \/ ExternalRequestExit

SpecSeq == InitSeq /\ [][NextSeq]_vars

(***************************************************************************)
(* SpecActors: the three actor loops with their commands, checkpoints and  *)
(* terminate requests; one of the loops is given work                      *)
(***************************************************************************)
InitActors ==
    /\ InitRunning
    /\ InitAudio
    /\ InitJoystick
    /\ InitSelfCheckPassed
    /\ keyStates = ResetKeyStates
    /\ \E focus \in Actors :
          /\ pr = PrInit(IF focus = "keyboard" THEN 1 ELSE 0)
          /\ userLeft = IF focus = "sdl" THEN 1 ELSE 0
          /\ rv = RvCallers(IF focus = "renderer" THEN MaxResizes ELSE 0, 0)
    /\ sq = SqInit("off")
    /\ ldLeft = 0
    /\ ldRom = ""
    /\ InitMore
    /\ dc = DcInit("off", 0)

NextActors ==
    \/ commandLoop_Pause
    \/ commandLoop_Terminate
    \/ commandLoop_KeyDown
    \/ commandLoop_KeyUp
    \/ commandLoop_Delay
    \/ commandLoop_DoneUnbuffered
    \/ KeyPress_Call
    \/ sdlEventLoop_Pause
    \/ sdlEventLoop_Terminate
    \/ sdlEventLoop_QuitEvent
    \/ sdlEventLoop_KeyboardEvent
    \/ sdlEventLoop_KeyStep
    \/ loop_Pause
    \/ loop_Terminate
    \/ loop_AppSurface
    \/ loop_SpeccySurface
    \/ ResizeVideo_CloseAllDisplays
    \/ ResizeVideo_Fields
    \/ ResizeVideo_NewAppSurface
    \/ ResizeVideo_SendAppSurface
    \/ ResizeVideo_NewSpeccySurface
    \/ ResizeVideo_SendSpeccySurface
    \/ ExternalRequestExit

SpecActors == InitActors /\ [][NextActors]_vars

(***************************************************************************)
(* SpecShutdown: start-up of the SDL front-end and its shutdown barrier    *)
(***************************************************************************)
InitShutdown ==
    /\ InitProcess
    /\ InitAudioUnset
    /\ InitJoystick
    /\ InitSelfCheckPassed
    /\ pr = PrInit(0)
    /\ sq = SqInit("off")
    /\ ldLeft = 0
    /\ ldRom = ""
    /\ InitMore
    /\ userLeft = 0
    /\ rv = RvCallers(0, 0)
    /\ dc = DcInit("off", 0)

NextShutdown ==
    \/ Main_InitFailed
    \/ Main_NewSDLRenderer
    \/ Main_SetupAudio
    \/ Main_GoEventLoop
    \/ Main_Wait
    \/ Main_Quit
    \/ commandLoop_Start
    \/ commandLoop_Pause
    \/ commandLoop_Terminate
    \/ sdlEventLoop_Start
    \/ sdlEventLoop_Add
    \/ sdlEventLoop_Pause
    \/ sdlEventLoop_Terminate
    \/ sdlEventLoop_QuitEvent
    \/ loop_Start
    \/ loop_Add
    \/ loop_Pause
    \/ loop_Terminate
    \/ ExternalRequestExit

SpecShutdown == InitShutdown /\ [][NextShutdown]_vars

(***************************************************************************)
(* SpecKeyOps: KeyDown and KeyUp applied to matrices the keyboard can hold *)
(***************************************************************************)
\* Codes passed to KeyDown / KeyUp: the 40 logical keys and one unmapped code.
KeyArgs == 0 .. 40

\* Row values with only key bits (0x01 .. 0x10) possibly pressed.
KeyRowValues == 224 .. 255
OtherRowValues == {255, 234, 224}

InitKeyOps ==
    /\ InitRunning
    /\ InitAudio
    /\ InitJoystick
    /\ InitSelfCheckPassed
    /\ \E row \in Rows, v \in KeyRowValues, w \in OtherRowValues :
          keyStates = [x \in Rows |-> IF x = row THEN v ELSE w]
    /\ pr = PrInit(0)
    /\ sq = SqInit("off")
    /\ ldLeft = 0
    /\ ldRom = ""
    /\ InitMore
    /\ userLeft = 0
    /\ rv = RvCallers(0, 0)
    /\ \E key \in KeyArgs : dc = DcInit("start", key)

NextKeyOps ==
    \/ Keyboard_KeyDown
    \/ Keyboard_KeyUp

SpecKeyOps == InitKeyOps /\ [][NextKeyOps]_vars

(***************************************************************************)
(* SpecSymbol: one device key of the symbol table pressed and released     *)
(***************************************************************************)
InitSymbol ==
    /\ InitRunning
    /\ InitAudio
    /\ InitJoystick
    /\ InitSelfCheckPassed
    /\ keyStates = ResetKeyStates
    /\ pr = PrInit(0)
    /\ sq = SqInit("off")
    /\ ldLeft = 0
    /\ ldRom = ""
    /\ InitMore
    /\ userLeft = 1
    /\ rv = RvCallers(0, 0)
    /\ dc = DcInit("off", 0)

NextSymbol ==
    \/ sdlEventLoop_AnyKeyboardEvent
    \/ sdlEventLoop_KeyStep

SpecSymbol == InitSymbol /\ [][NextSymbol]_vars

(***************************************************************************)
(* SpecResize: ResizeVideo calls issued one after another against the      *)
(* running renderer loop, from every video mode and console position       *)
(***************************************************************************)
MaxResizeCalls == 2

\* Positions of the console overlay on a display of the given height.
ConsoleYValues(h) == {0, 1, h \div 4, h \div 2, h - 1, h}

InitResize ==
    /\ \E scale2x \in BOOLEAN, fullscreen \in BOOLEAN :
          \E consoleY \in ConsoleYValues(height(scale2x, fullscreen)) :
             InitRunningIn(scale2x, fullscreen, consoleY)
    /\ InitAudio
    /\ InitJoystick
    /\ InitSelfCheckPassed
    /\ keyStates = ResetKeyStates
    /\ pr = PrInit(0)
    /\ sq = SqInit("off")
    /\ ldLeft = 0
    /\ ldRom = ""
    /\ InitMore
    /\ userLeft = 0
    /\ rv = RvCallers(MaxResizeCalls, 0)
    /\ dc = DcInit("off", 0)

NextResize ==
    \/ ResizeVideo_CloseAllDisplays
    \/ ResizeVideo_Fields
    \/ ResizeVideo_NewAppSurface
    \/ ResizeVideo_SendAppSurface
    \/ ResizeVideo_NewSpeccySurface
    \/ ResizeVideo_SendSpeccySurface
    \/ loop_AppSurface
    \/ loop_SpeccySurface
    \/ loop_Pause
    \/ loop_Terminate
    \/ ExternalRequestExit

SpecResize == InitResize /\ [][NextResize]_vars

(***************************************************************************)
(* SpecAudio: audio settings changed while the renderer loop runs; the     *)
(* backend (NewSDLAudio) succeeds or fails                                 *)
(***************************************************************************)
MaxAudioCalls == 2

InitAudioAnyFlags ==
    /\ \E audio \in BOOLEAN, hqAudio \in BOOLEAN, freq \in AudioFreqs, ok \in BOOLEAN :
          /\ audioCfg = [audio |-> audio, hqAudio |-> hqAudio, audioFreq |-> freq]
          /\ audioReceivers = IF audio /\ ok THEN {1} ELSE {}
          /\ audioMsgs = IF audio /\ ~ok THEN 1 ELSE 0
    /\ ac = AcIdle(MaxAudioCalls, 2)
    /\ audioEvents = << >>

InitSpecAudio ==
    /\ InitRunning
    /\ InitAudioAnyFlags
    /\ InitJoystick
    /\ InitSelfCheckPassed
    /\ keyStates = ResetKeyStates
    /\ pr = PrInit(0)
    /\ sq = SqInit("off")
    /\ ldLeft = 0
    /\ ldRom = ""
    /\ InitMore
    /\ userLeft = 0
    /\ rv = RvCallers(0, 0)
    /\ dc = DcInit("off", 0)

NextAudio ==
    \/ EnableAudio
    \/ SetAudioFreq
    \/ SetAudioQuality
    \/ setAudioParameters_Fields
    \/ setAudioParameters_CloseAll
    \/ setAudioParameters_Finished
    \/ setAudioParameters_NewSDLAudio
    \/ setAudioParameters_AddAudioReceiver
    \/ loop_Pause
    \/ loop_Terminate
    \/ ExternalRequestExit

SpecAudio == InitSpecAudio /\ [][NextAudio]_vars

(***************************************************************************)
(* SpecInput: the input dispatcher with a joystick, or with device keys    *)
(* that have no mapping next to direct calls with unmapped key codes       *)
(***************************************************************************)
MaxJoyEvents == 1

InitInput ==
    /\ InitRunning
    /\ InitAudio
    /\ InitSelfCheckPassed
    /\ keyStates \in {ResetKeyStates, KeyDown(KeyDown(ResetKeyStates, KEY_CapsShift), KEY_1)}
    /\ pr = PrInit(0)
    /\ sq = SqInit("off")
    /\ ldLeft = 0
    /\ ldRom = ""
    /\ InitMore
    /\ rv = RvCallers(0, 0)
    /\ \/ /\ kempston \in SUBSET KempstonBits
          /\ joyLast = NoJoyEvent(MaxJoyEvents)
          /\ userLeft = 0
          /\ dc = DcInit("off", 0)
       \/ /\ InitJoystick
          /\ userLeft = MaxUserKeys
          /\ \E key \in {40, 255} : dc = DcInit("start", key)

NextInput ==
    \/ sdlEventLoop_JoyAxisEvent
    \/ sdlEventLoop_JoyButtonEvent
    \/ sdlEventLoop_UnmappedKeyboardEvent
    \/ sdlEventLoop_Terminate
    \/ Keyboard_KeyDown
    \/ Keyboard_KeyUp

SpecInput == InitInput /\ [][NextInput]_vars

(***************************************************************************)
(* Specification SpecSelfCheck: the package initialiser of spectrum runs   *)
(*   once on a key table and a symbol table with some entries taken out    *)
(***************************************************************************)
\* Largest number of symbol-table entries taken out.
MaxRemoved == 1

\* The subsets of S with at most n elements.
RECURSIVE SubsetsUpTo(_, _)
SubsetsUpTo(S, n) ==
    IF n = 0 THEN {{}}
    ELSE LET P == SubsetsUpTo(S, n - 1)
         IN P \cup {p \cup {x} : p \in P, x \in S}

\* The key table as it is, one key short, one key over, and with one key
\* replaced by a code the symbol table does not know.
InitSelfCheck ==
    /\ InitProcess
    /\ InitAudioUnset
    /\ InitJoystick
    /\ pr = PrInit(0)
    /\ sq = SqInit("off")
    /\ ldLeft = 0
    /\ ldRom = ""
    /\ InitMore
    /\ userLeft = 0
    /\ rv = RvCallers(0, 0)
    /\ dc = DcInit("off", 0)
    /\ \E keyTable \in {AllKeys, AllKeys \ {KEY_1}, AllKeys \cup {40},
                        (AllKeys \ {KEY_1}) \cup {40}},
          removed \in SubsetsUpTo(DOMAIN SDL_KeyMap, MaxRemoved) :
          selfCheck = [keys |-> keyTable, removed |-> removed, result |-> "pending"]

NextSelfCheck == spectrum_init

SpecSelfCheck == InitSelfCheck /\ [][NextSelfCheck]_vars

(***************************************************************************)
(* SpecLoad: one Cmd_SendLoad executed by the keyboard loop alone, from a  *)
(*   matrix in which some keys are held                                    *)
(***************************************************************************)
\* The matrix after KeyDown of every key in 'keys' on the reset matrix.
RECURSIVE KeysHeld(_)
KeysHeld(keys) ==
    IF keys = {} THEN ResetKeyStates
    ELSE LET k == CHOOSE x \in keys : TRUE
         IN KeyDown(KeysHeld(keys \ {k}), k)

\* dc.before keeps the matrix the command starts from; no direct call is made.
InitLoad ==
    /\ InitRunning
    /\ InitAudio
    /\ InitJoystick
    /\ InitSelfCheckPassed
    /\ \E macroHeld \in SUBSET {KEY_J, KEY_P, KEY_SymbolShift, KEY_Enter},
          otherHeld \in {{}, {KEY_CapsShift, KEY_1}, {KEY_L}} :
          keyStates = KeysHeld(macroHeld \cup otherHeld)
    /\ pr = PrInit(0)
    /\ sq = SqInit("off")
    /\ ldLeft = 1
    /\ ldRom = ""
    /\ InitMore
    /\ userLeft = 0
    /\ rv = RvCallers(0, 0)
    /\ dc = [DcInit("off", 0) EXCEPT !.before = keyStates]

NextLoad ==
    \/ SendLoad
    \/ commandLoop_KeyDown
    \/ commandLoop_KeyUp
    \/ commandLoop_Delay

SpecLoad == InitLoad /\ [][NextLoad]_vars

(***************************************************************************)
(* SpecLock: the emulation core reads matrix rows with GetKeyState while   *)
(*   the keyboard loop executes a KeyPress and a SendLoad; every access    *)
(*   of keyStates goes through Keyboard.mutex.  A goroutine that can leave *)
(*   its critical section does so.                                         *)
(***************************************************************************)
\* Number of GetKeyState calls.
MaxReads == 1

InitLock ==
    /\ InitRunning
    /\ InitAudio
    /\ InitJoystick
    /\ InitSelfCheckPassed
    /\ keyStates = ResetKeyStates
    /\ pr = PrInit(MaxPresses)
    /\ sq = SqInit("off")
    /\ ldLeft = 1
    /\ ldRom = ""
    /\ userLeft = 0
    /\ rv = RvCallers(0, 0)
    /\ dc = DcInit("off", 0)
    /\ mu = MutexFree
    /\ gk = GkInit(MaxReads)
    /\ InitChord
    /\ InitMemory(0)

NextLock ==
    \/ KeyPress_Call
    \/ SendLoad
    \/ commandLoop_KeyLock
    \/ commandLoop_KeyUnlock
    \/ commandLoop_Delay
    \/ commandLoop_DoneUnbuffered
    \/ GetKeyState_RLock
    \/ GetKeyState_Return

SpecLock ==
    /\ InitLock
    /\ [][NextLock]_vars
    /\ WF_vars(commandLoop_KeyUnlock)
    /\ WF_vars(GetKeyState_Return)

(***************************************************************************)
(* SpecResize2: two goroutines call ResizeVideo concurrently against the   *)
(*   running renderer loop                                                 *)
(***************************************************************************)
\* Number of ResizeVideo calls of each of the two callers.
MaxConcurrentResizes == 1

InitResize2 ==
    /\ InitRunning
    /\ InitAudio
    /\ InitJoystick
    /\ InitSelfCheckPassed
    /\ keyStates = ResetKeyStates
    /\ pr = PrInit(0)
    /\ sq = SqInit("off")
    /\ ldLeft = 0
    /\ ldRom = ""
    /\ InitMore
    /\ userLeft = 0
    /\ rv = RvCallers(MaxConcurrentResizes, MaxConcurrentResizes)
    /\ dc = DcInit("off", 0)

NextResize2 ==
    \/ ResizeVideo_CloseAllDisplays
    \/ ResizeVideo_Fields
    \/ ResizeVideo_NewAppSurface
    \/ ResizeVideo_SendAppSurface
    \/ ResizeVideo_NewSpeccySurface
    \/ ResizeVideo_SendSpeccySurface
    \/ loop_AppSurface
    \/ loop_SpeccySurface

SpecResize2 == InitResize2 /\ [][NextResize2]_vars

(***************************************************************************)
(* Specification SpecJoy: a joystick delivers a sequence of axis and       *)
(*   button events to the input dispatcher, starting with the stick        *)
(*   centred and no Kempston bit set                                       *)
(***************************************************************************)
\* Number of joystick events the stick delivers.
MaxAxisEvents == 2

InitJoy ==
    /\ InitRunning
    /\ InitAudio
    /\ InitSelfCheckPassed
    /\ keyStates = ResetKeyStates
    /\ pr = PrInit(0)
    /\ sq = SqInit("off")
    /\ ldLeft = 0
    /\ ldRom = ""
    /\ InitMore
    /\ rv = RvCallers(0, 0)
    /\ kempston = {}
    /\ joyLast = NoJoyEvent(MaxAxisEvents)
    /\ userLeft = 0
    /\ dc = DcInit("off", 0)

NextJoy ==
    \/ sdlEventLoop_JoyAxisEvent
    \/ sdlEventLoop_JoyButtonEvent

SpecJoy == InitJoy /\ [][NextJoy]_vars

(***************************************************************************)
(* Specification SpecMatrix: every operation that presses and releases     *)
(*   keys, side by side: device keys of the user, KeyPress,                *)
(*   KeyPressSequence and the load macro                                   *)
(***************************************************************************)
\* Number of device key presses the user makes next to the scripts.
MaxChordKeys == 2

InitMatrix ==
    /\ InitRunning
    /\ InitAudio
    /\ InitJoystick
    /\ InitSelfCheckPassed
    /\ keyStates = ResetKeyStates
    /\ pr = PrInit(1)
    /\ sq = SqInit("idle")
    /\ ldLeft = 1
    /\ ldRom = ""
    /\ InitMore
    /\ userLeft = MaxChordKeys
    /\ rv = RvCallers(0, 0)
    /\ dc = DcInit("off", 0)

NextMatrix ==
    \/ commandLoop_KeyDown
    \/ commandLoop_KeyUp
    \/ commandLoop_Delay
    \/ commandLoop_DoneUnbuffered
    \/ commandLoop_DoneBuffered
    \/ KeyPress_Call
    \/ KeyPressSequence_Call
    \/ KeyPressSequence_Send
    \/ KeyPressSequence_Receive
    \/ SendLoad
    \/ sdlEventLoop_KeyboardEvent
    \/ sdlEventLoop_KeyStep

SpecMatrix == InitMatrix /\ [][NextMatrix]_vars

(***************************************************************************)
(* Specification SpecMemory: a sequence of Memory.Write calls, each        *)
(*   followed by Memory.Read calls, on a memory that starts zeroed         *)
(***************************************************************************)
\* Number of Memory.Write calls.
MaxWrites == 2

InitSpecMemory ==
    /\ InitRunning
    /\ InitAudio
    /\ InitJoystick
    /\ InitSelfCheckPassed
    /\ keyStates = ResetKeyStates
    /\ pr = PrInit(0)
    /\ sq = SqInit("off")
    /\ ldLeft = 0
    /\ ldRom = ""
    /\ userLeft = 0
    /\ rv = RvCallers(0, 0)
    /\ dc = DcInit("off", 0)
    /\ InitMutex
    /\ InitChord
    /\ InitMemory(MaxWrites)

NextMemory ==
    \/ Memory_Write_Notify
    \/ Memory_Write_Store
    \/ Memory_Read_Call

SpecMemory == InitSpecMemory /\ [][NextMemory]_vars

(***************************************************************************)
(* Properties                                                              *)
(***************************************************************************)
\* Bit i (0 = least significant) of a byte.
BitAt(byte, i) == (byte \div (2 ^ i)) % 2

\* The matrix cell <<row, bit>> of a mapped logical key.
CellOf(key) == <<keyCodes[key].row, CHOOSE i \in 0 .. 7 : 2 ^ i = keyCodes[key].mask>>

\* The value of a key's matrix bit: 1 released, 0 pressed.
KeyBit(ks, key) == BitAt(ks[CellOf(key)[1]], CellOf(key)[2])

\* The cells in which two matrices differ.
DiffCells(ks1, ks2) ==
    {c \in Rows \X (0 .. 7) : BitAt(ks1[c[1]], c[2]) # BitAt(ks2[c[1]], c[2])}

Reverse(seq) == [i \in 1 .. Len(seq) |-> seq[Len(seq) + 1 - i]]

----------------------------------------------------------------------------
\* C1: Main's wait on the shutdown barrier returns, and sdl.Quit() runs, only
\* after both the renderer loop and the SDL event loop have completed their
\* terminate handshake (echo on Terminate, then shutdown.Done), whatever the
\* interleaving of goroutine start-up and barrier registration.
C1_QuitOnlyAfterBothLoops ==
    (mainPc = "quit" \/ sdlQuit > 0) =>
        (pc["renderer"] = "terminated" /\ pc["sdl"] = "terminated")

----------------------------------------------------------------------------
\* What a loop is working on: its command or event and its position in it.
LoopWork(a) ==
    IF a = "keyboard" THEN <<kbCmd, kbStep, kbTrace>>
    ELSE IF a = "sdl" THEN <<evCur, evIdx, evTrace>>
    ELSE <<rCmd, rd.appSurface, rd.speccySurface, freed>>

C2_Step(a) ==
    pc[a] \in {"termEcho", "termDone", "terminated"} =>
        /\ pc'[a] \in (IF pc[a] = "termEcho"
                       THEN {"termEcho", IF a = "keyboard" THEN "terminated" ELSE "termDone"}
                       ELSE IF pc[a] = "termDone" THEN {"termDone", "terminated"}
                       ELSE {"terminated"})
        /\ LoopWork(a)' = LoopWork(a)
        /\ pauseReqs'[a] = pauseReqs[a]
        /\ pauseAcks'[a] = pauseAcks[a]
        /\ handled'[a] = handled[a]
        /\ termAcks'[a] = termAcks[a] + (IF pc[a] = "termEcho" /\ pc'[a] # "termEcho"
                                         THEN 1 ELSE 0)

\* C2: once an actor loop (keyboard commandLoop, SDLRenderer.loop,
\* sdlEventLoop) has received a terminate request it echoes exactly one
\* acknowledgment and exits; from then on it takes no queued command, no
\* surface swap, no input event and no checkpoint request.
C2_TerminateIsTerminal ==
    /\ [](\A a \in Actors :
            termAcks[a] = (IF pc[a] \in {"termDone", "terminated"} THEN 1 ELSE 0))
    /\ [][\A a \in Actors : C2_Step(a)]_vars

\* All three loops have terminated while a KeyPress client still wants to
\* submit a command.
C2_Witness ==
    /\ \A a \in Actors : pc[a] = "terminated" /\ termAcks[a] = 1
    /\ pr.left > 0

----------------------------------------------------------------------------
\* A step of loop a that belongs to its checkpoint handshake.
PauseStep(a) ==
    \/ pc[a] = "select" /\ pc'[a] = "pauseEcho"
    \/ pc[a] = "pauseEcho" /\ pc'[a] # "pauseEcho"

C3_Step(a) ==
    PauseStep(a) =>
        /\ pc[a] = "pauseEcho" => pc'[a] = "select" /\ pauseAcks'[a] = pauseAcks[a] + 1
        /\ pc[a] = "select" => pauseAcks'[a] = pauseAcks[a]
        /\ \A b \in Actors \ {a} : pc'[b] = pc[b] /\ pauseAcks'[b] = pauseAcks[b]
        /\ UNCHANGED <<kbVars, clientVars, evVars, rVars, mainVars, exitRequested,
                       registered, termCh, termAcks, dc, extVars>>

\* C3: a checkpoint (Pause) request is answered with exactly one echo and
\* changes nothing else: the loop is back in its select, key matrix,
\* surfaces and every other variable are as before.
C3_CheckpointOnlyEchoes ==
    /\ [](\A a \in Actors :
            pauseAcks[a] = pauseReqs[a] - (IF pc[a] = "pauseEcho" THEN 1 ELSE 0))
    /\ [][\A a \in Actors : C3_Step(a)]_vars

\* The keyboard loop has echoed a checkpoint and afterwards taken and
\* completed a KeyPress command.
C3_Witness ==
    /\ pauseAcks["keyboard"] = 1
    /\ handled["keyboard"]
    /\ pr.got = 1
    /\ pc["keyboard"] = "select"

----------------------------------------------------------------------------
\* C4 as claimed: KeyDown(k) followed by KeyUp(k) restores the matrix bit of
\* k to the value it had before the KeyDown, for every matrix state.
C4_RestoresPreDownValue ==
    (dc.pc = "downUp" /\ dc.key \in DOMAIN keyCodes) =>
        KeyBit(keyStates, dc.key) = KeyBit(dc.beforeDown, dc.key)

\* C4 amended: KeyDown(k) followed by KeyUp(k) leaves the bit of k released
\* (1) and every other bit as before the KeyDown; the bit of k is restored
\* exactly when k was released before the KeyDown.
C4_LeavesKeyReleased ==
    (dc.pc = "downUp" /\ dc.key \in DOMAIN keyCodes) =>
        /\ KeyBit(keyStates, dc.key) = 1
        /\ DiffCells(dc.beforeDown, keyStates) \subseteq {CellOf(dc.key)}
        /\ (keyStates = dc.beforeDown) <=> (KeyBit(dc.beforeDown, dc.key) = 1)

\* KeyDown(k) then KeyUp(k) was applied to a matrix in which k was released
\* and other keys were pressed, and the matrix is as before.
C4_Witness ==
    /\ dc.pc = "downUp"
    /\ dc.key \in DOMAIN keyCodes
    /\ KeyBit(dc.beforeDown, dc.key) = 1
    /\ dc.beforeDown # ResetKeyStates
    /\ keyStates = dc.beforeDown

----------------------------------------------------------------------------
\* C5 as claimed: every KeyDown(k) or KeyUp(k) on a mapped key flips exactly
\* one bit of the matrix, the bit of k.
C5_FlipsExactlyOneBit ==
    (dc.pc \in {"down", "up", "downUp"} /\ dc.key \in DOMAIN keyCodes) =>
        DiffCells(dc.before, keyStates) = {CellOf(dc.key)}

\* C5 amended: KeyDown(k) / KeyUp(k) on a mapped key changes no bit other
\* than the bit of k, leaves that bit 0 after KeyDown and 1 after KeyUp, and
\* so flips it exactly when it had the other value.
C5_TouchesOnlyKeyBit ==
    (dc.pc \in {"down", "up", "downUp"} /\ dc.key \in DOMAIN keyCodes) =>
        /\ DiffCells(dc.before, keyStates) \subseteq {CellOf(dc.key)}
        /\ KeyBit(keyStates, dc.key) = (IF dc.pc = "down" THEN 0 ELSE 1)
        /\ (DiffCells(dc.before, keyStates) = {CellOf(dc.key)})
               <=> (KeyBit(dc.before, dc.key) = (IF dc.pc = "down" THEN 1 ELSE 0))

\* A KeyDown flipped the bit of its key in a row where another key is
\* pressed.
C5_Witness ==
    /\ dc.pc = "down"
    /\ dc.key \in DOMAIN keyCodes
    /\ DiffCells(dc.before, keyStates) = {CellOf(dc.key)}
    /\ dc.before[keyCodes[dc.key].row] # 255

----------------------------------------------------------------------------
\* The matrix in which exactly the keys of a set are pressed.
PressedExactly(ks, keys) ==
    DiffCells(ResetKeyStates, ks) = {CellOf(k) : k \in keys}

SeqRange(seq) == {seq[i] : i \in 1 .. Len(seq)}

\* C6: for every symbol-table entry [k1..kn] a device key-down applies
\* KeyDown(k1)..KeyDown(kn) in listed order, the key-up applies
\* KeyUp(kn)..KeyUp(k1) in reverse order, and from the all-released matrix a
\* full press and release leaves the matrix all released again.
C6_PressReleaseOrder ==
    LET sequence == SDL_KeyMap[evCur.name]
        order == IF evCur.type = "KEYDOWN" THEN sequence ELSE Reverse(sequence)
    IN evCur # NoEv =>
          /\ Len(evTrace) <= Len(order)
          /\ evTrace = SubSeq(order, 1, Len(evTrace))
          /\ pc["sdl"] = "select" =>
                /\ evTrace = order
                /\ evCur.type = "KEYDOWN" => PressedExactly(keyStates, SeqRange(sequence))
                /\ evCur.type = "KEYUP" => keyStates = ResetKeyStates

\* A two-key chord has been pressed and released.
C6_Witness ==
    /\ pc["sdl"] = "select"
    /\ evCur.type = "KEYUP"
    /\ Len(SDL_KeyMap[evCur.name]) = 2
    /\ evTrace = Reverse(SDL_KeyMap[evCur.name])
    /\ keyStates = ResetKeyStates

----------------------------------------------------------------------------
\* Completion values emitted so far on the channel KeyPressSequence made.
SeqEmitted == sq.buf + sq.got

\* The command loop is executing a command of the KeyPressSequence call.
InSeqCmd == pc["keyboard"] = "cmd" /\ kbCmd.done.kind = "buffered"

\* C7: KeyPressSequence(k1..kn) makes exactly n completion values appear on
\* the returned channel, one per key: the i-th is emitted after the press of
\* ki and before the press of k(i+1) begins.
C7_OneCompletionPerKey ==
    sq.pc \in {"sending", "returned"} =>
        /\ SeqEmitted <= Len(sq.keys)
        /\ InSeqCmd => /\ SeqEmitted = sq.sent - 1
                       /\ kbCmd.key = sq.keys[sq.sent]
        /\ ~InSeqCmd => SeqEmitted = sq.sent
        /\ (sq.pc = "returned" /\ ~InSeqCmd) => SeqEmitted = Len(sq.keys)

\* A call with the longest key list has returned, all its completion values
\* have been emitted and received, next to a KeyPress of another client.
C7_Witness ==
    /\ sq.pc = "returned"
    /\ Len(sq.keys) = MaxSeqLen
    /\ sq.got = Len(sq.keys)
    /\ pr.calls = 1

----------------------------------------------------------------------------
\* C8: the command loop's completion sends for a KeyPressSequence call never
\* block, whether or not anybody receives from the returned channel: when
\* the loop reaches cmd.done <- true the channel has room.
C8_DoneSendNeverBlocks ==
    /\ (InSeqCmd /\ KbStmt.op = "done") => sq.buf < sq.cap
    /\ sq.pc \in {"sending", "returned"} => sq.buf <= Len(sq.keys)

\* The call has returned and all n completion values sit in the channel:
\* nobody has received any.
C8_Witness ==
    /\ sq.pc = "returned"
    /\ Len(sq.keys) = MaxSeqLen
    /\ sq.buf = Len(sq.keys)
    /\ sq.got = 0
    /\ pc["keyboard"] = "select"

----------------------------------------------------------------------------
\* The statements of a queued KeyPress(k) in the claimed order.
C9_Order(k) ==
    << Stmt("KeyDown", k), Stmt("sleep", 1), Stmt("KeyUp", k), Stmt("sleep", 10),
       Stmt("done", 0) >>

\* C9: a queued KeyPress(k) runs KeyDown(k), one-frame hold, KeyUp(k),
\* ten-frame hold, completion signal in this order; the completion is never
\* emitted before the KeyUp, and the bit of k reads pressed during the first
\* hold when no other key event touches k.
C9_KeyPressOrder ==
    /\ [](kbCmd.type = "KeyPress" =>
            /\ Len(kbTrace) = kbStep - 1
            /\ kbTrace = SubSeq(C9_Order(kbCmd.key), 1, kbStep - 1)
            /\ (kbStep = 2 /\ kbCmd.key \notin kbForeign) => KeyBit(keyStates, kbCmd.key) = 0)
    /\ [][pr'.got # pr.got =>
            /\ kbCmd.type = "KeyPress"
            /\ kbTrace' = C9_Order(kbCmd.key)]_vars

\* The loop is in the first hold of KeyPress(k) while a device key event has
\* changed another key.
C9_Witness ==
    /\ kbCmd.type = "KeyPress"
    /\ kbStep = 2
    /\ kbForeign # {}
    /\ kbCmd.key \notin kbForeign
    /\ KeyBit(keyStates, kbCmd.key) = 0

----------------------------------------------------------------------------
\* Index of the first KeyDown and of the last KeyUp of a statement list.
FirstKeyDown(script) ==
    CHOOSE i \in 1 .. Len(script) :
        script[i].op = "KeyDown" /\ \A j \in 1 .. i - 1 : script[j].op # "KeyDown"
LastKeyUp(script) ==
    CHOOSE i \in 1 .. Len(script) :
        script[i].op = "KeyUp" /\ \A j \in i + 1 .. Len(script) : script[j].op # "KeyUp"

\* The loop is between the first KeyDown and the last KeyUp of its command.
InWindow ==
    /\ pc["keyboard"] = "cmd"
    /\ kbStep > FirstKeyDown(CommandScript(kbCmd))
    /\ kbStep <= LastKeyUp(CommandScript(kbCmd))

\* C10 as claimed: between the first KeyDown and the last KeyUp of a queued
\* command the key matrix is mutated only by that command's own steps.
C10_OnlyOwnSteps ==
    [][(InWindow /\ keyStates' # keyStates) => kbStep' # kbStep]_vars

\* C10 amended: between the first KeyDown and the last KeyUp of a queued
\* command the loop takes no other queued command; the matrix is mutated
\* only by the command's own steps and by the direct KeyDown / KeyUp calls
\* of the input dispatcher.
C10_NoOtherQueuedCommand ==
    [][InWindow =>
         /\ kbCmd' = kbCmd \/ (kbCmd' = NoCmd /\ kbStep = Len(CommandScript(kbCmd)))
         /\ kbStep' \in {kbStep, kbStep + 1, 0}
         /\ keyStates' # keyStates =>
               \/ kbStep' # kbStep /\ evTrace' = evTrace
               \/ kbStep' = kbStep /\ pc["sdl"] = "keys" /\ evTrace' # evTrace]_vars

\* Inside the window of a command a device key event has changed the matrix
\* while another queued command is still to be submitted.
C10_Witness ==
    /\ InWindow
    /\ kbForeign # {}
    /\ pr.left + ldLeft > 0

-----------------------------------------------------------------------------
\* Surfaces currently registered with the compositor, in either role.
ComposerSurfaces == composerInputs \cup ({composerOutput} \ {NoSurface})

\* C11: whenever the renderer loop frees a display surface, that surface is
\* not among the emulation core's display sinks: the core's displays were
\* closed (and the close acknowledged) before any new surface is built and
\* before any superseded surface is freed, for ResizeVideo calls issued one
\* after another.
C11_FreedDisplayNotACoreSink ==
    /\ freed \cap coreDisplays = {}
    /\ pc["renderer"] = "speccy_free" => rd.speccySurface \notin coreDisplays
    /\ rv[1].pc \in {"newApp", "sendApp", "waitApp", "newSpeccy"} => coreDisplays = {}

\* The second of two calls has freed its display surface and returned.
C11_Witness ==
    /\ rv[1].pc = "idle"
    /\ rv[1].left = 0
    /\ Cardinality(freed) = 2 * MaxResizeCalls
    /\ coreDisplays = {rd.speccySurface}

\* C12: during ResizeVideo the compositor has no registered display surface
\* only inside one swap step of the loop (between RemoveAllInputSurfaces and
\* the following AddInputSurface of the same command), and never has two
\* surfaces of the same role registered.
C12_OneSurfacePerRole ==
    /\ Cardinality(composerInputs) <= 1
    /\ composerInputs = {} => pc["renderer"] \in {"speccy_free", "speccy_add"}
    /\ composerOutput # NoSurface => composerOutput \notin composerInputs

\* The gap of the second swap: no display surface is registered.
C12_Witness ==
    /\ composerInputs = {}
    /\ pc["renderer"] = "speccy_add"
    /\ rv[1].left = 0

\* C13 as stated: when the superseded surface is freed the new surface is
\* already installed with the compositor, and a freed surface is never
\* registered with the compositor.
C13_NewInstalledBeforeOldFreed ==
    /\ pc["renderer"] = "speccy_free" => rCmd \in composerInputs
    /\ freed \cap ComposerSurfaces = {}

\* C13: in every surface swap the superseded surface is detached from the
\* compositor before it is freed (nothing is registered in its role at the
\* free), the new surface is registered by the next statement of the same
\* loop command, and a freed surface is never registered afterwards.
C13_DetachedBeforeFreed ==
    /\ pc["renderer"] = "speccy_free" => composerInputs = {}
    /\ pc["renderer"] = "app_free" => composerOutput = NoSurface
    /\ pc["renderer"] = "speccy_done" => composerInputs = {rd.speccySurface}
    /\ pc["renderer"] = "app_done" => composerOutput = rd.appSurface
    /\ freed \cap ComposerSurfaces = {}

\* Both swaps of a call are over: two surfaces are freed, their successors
\* are the registered ones.
C13_Witness ==
    /\ rv[1].pc = "idle"
    /\ Cardinality(freed) >= 2
    /\ composerInputs = {rd.speccySurface}
    /\ composerOutput = rd.appSurface

-----------------------------------------------------------------------------
IsPrefix(s, t) == Len(s) <= Len(t) /\ \A i \in 1 .. Len(s) : s[i] = t[i]

\* A SetAudioFreq call with a new frequency, audio enabled and a working
\* backend has returned.
FreqChangeDone ==
    /\ ac.pc = "idle"
    /\ ac.op = "SetAudioFreq"
    /\ ac.result = "registered"

\* C14 as stated: changing the frequency while audio is enabled and the
\* backend is available sends exactly [CloseAllAudioReceivers,
\* AddAudioReceiver(new)] to the emulation core and nothing else.
C14_ExactlyCloseThenRegister ==
    FreqChangeDone => audioEvents = <<"CloseAllAudioReceivers", "AddAudioReceiver">>

\* C14: such a call sends exactly [CloseAllAudioReceivers,
\* CloseAllAudioReceivers, AddAudioReceiver(new)]: the register is sent last,
\* after every close has been acknowledged, never before a close, and the
\* new receiver is then the only one registered.
C14_ClosesThenRegisters ==
    /\ ac.op = "SetAudioFreq" /\ ac.result # "unchanged"
          => IsPrefix(audioEvents, <<"CloseAllAudioReceivers", "CloseAllAudioReceivers",
                                     "AddAudioReceiver">>)
    /\ ac.op = "SetAudioFreq" /\ ac.pc \in {"finished1", "finished2"}
          => \A i \in 1 .. Len(audioEvents) : audioEvents[i] = "CloseAllAudioReceivers"
    /\ FreqChangeDone
          => /\ audioEvents = <<"CloseAllAudioReceivers", "CloseAllAudioReceivers",
                                "AddAudioReceiver">>
             /\ audioReceivers = {ac.audio}
             /\ audioCfg.audioFreq = ac.freq

\* The frequency went from 44100 to 22050 and the receiver was replaced.
C14_Witness ==
    /\ FreqChangeDone
    /\ ac.freq = 22050
    /\ ac.audio # NoAudio
    /\ audioReceivers = {ac.audio}
    /\ 1 \notin audioReceivers

\* A step of an audio call.
AudioStep == ac' # ac

\* C15: when the audio backend cannot be acquired during EnableAudio /
\* SetAudioFreq / SetAudioQuality the error is reported, the previous
\* receivers have been closed, no receiver is registered, and the call
\* returns: no exit is requested and the renderer loop is left as it was.
C15_BackendFailureIsContained ==
    /\ [](ac.result = "failed"
            => /\ ac.pc = "idle"
               /\ audioReceivers = {}
               /\ audioEvents = <<"CloseAllAudioReceivers">>)
    /\ [][/\ (AudioStep /\ ac'.result = "failed" /\ ac.result # "failed"
                => audioMsgs' = audioMsgs + 1)
          /\ (AudioStep => UNCHANGED <<exitRequested, pc, termCh, mainVars, rVars>>)]_vars

\* The backend failed after a receiver had been registered; the loop runs.
C15_Witness ==
    /\ ac.result = "failed"
    /\ ac.pc = "idle"
    /\ ac.nextId > 2
    /\ audioReceivers = {}
    /\ pc["renderer"] = "select"
    /\ ~exitRequested

-----------------------------------------------------------------------------
\* The two direction bits of an axis, and the bit a deflection sets.
AxisBits(axis) ==
    IF axis = 0 THEN {"KEMPSTON_RIGHT", "KEMPSTON_LEFT"}
    ELSE IF axis = 1 THEN {"KEMPSTON_UP", "KEMPSTON_DOWN"}
    ELSE {}

DeflectionBit(axis, value) ==
    IF axis = 0 THEN (IF value > 0 THEN "KEMPSTON_RIGHT" ELSE "KEMPSTON_LEFT")
    ELSE (IF value > 0 THEN "KEMPSTON_UP" ELSE "KEMPSTON_DOWN")

\* C19: an axis event with value 0 clears both direction bits of its axis, a
\* positive or negative value sets the one direction bit of that sign; the
\* bits of the other axis, the fire bit and the key matrix stay as they
\* were. Button 0 sets (state > 0) or clears the fire bit only; other
\* buttons and other axes change nothing.
C19_JoystickBits ==
    /\ joyLast.kind # "none" => keyStates = joyLast.keys
    /\ joyLast.kind = "axis" =>
          /\ kempston \ AxisBits(joyLast.axis) = joyLast.before \ AxisBits(joyLast.axis)
          /\ joyLast.axis \in {0, 1} /\ joyLast.value = 0
                => kempston \cap AxisBits(joyLast.axis) = {}
          /\ joyLast.axis \in {0, 1} /\ joyLast.value # 0
                => kempston = joyLast.before \cup {DeflectionBit(joyLast.axis, joyLast.value)}
          /\ joyLast.axis \notin {0, 1} => kempston = joyLast.before
    /\ joyLast.kind = "button" =>
          /\ kempston \ {"KEMPSTON_FIRE"} = joyLast.before \ {"KEMPSTON_FIRE"}
          /\ joyLast.button = 0 => ("KEMPSTON_FIRE" \in kempston <=> joyLast.state > 0)
          /\ joyLast.button # 0 => kempston = joyLast.before

\* Axis 0 is centred while both of its directions, another direction and
\* fire were set.
C19_Witness ==
    /\ joyLast.kind = "axis"
    /\ joyLast.axis = 0
    /\ joyLast.value = 0
    /\ joyLast.before = KempstonBits \ {"KEMPSTON_DOWN"}
    /\ kempston = {"KEMPSTON_UP", "KEMPSTON_FIRE"}

-----------------------------------------------------------------------------
\* The dispatcher receives the keyboard event (type, keyName) in this step.
ReceivesKeyEvent(type, keyName) ==
    /\ pc["sdl"] = "select"
    /\ IF type = "KEYDOWN"
       THEN keyName \notin userHeld /\ userHeld' = userHeld \cup {keyName}
       ELSE keyName \in userHeld /\ userHeld' = userHeld \ {keyName}

\* A direct KeyDown / KeyUp call with a code outside the 40-key table is made
\* in this step.
UnmappedDirectCall == dc' # dc /\ dc.key \notin DOMAIN keyCodes

\* C20: unmapped input is silently ignored. KeyDown / KeyUp with a code
\* outside the 40-key table, and a keyboard event whose device key name is
\* not in the symbol table (the key-up of "escape" included), leave all 8
\* matrix rows unchanged and raise no error; an "escape" key-down requests
\* exit and leaves the matrix unchanged too.
C20_UnmappedInputIgnored ==
    /\ [][UnmappedDirectCall => keyStates' = keyStates /\ pc' = pc]_vars
    /\ [][\A type \in EventTypes, keyName \in {"escape", "f1"} :
             ReceivesKeyEvent(type, keyName)
                => /\ keyName \notin DOMAIN SDL_KeyMap
                   /\ keyStates' = keyStates
                   /\ pc' = pc
                   /\ exitRequested'
                         = (exitRequested \/ (keyName = "escape" /\ type = "KEYDOWN"))]_vars

\* On a matrix with keys held: "escape" went down and up again, exit is
\* requested, and KeyDown and KeyUp were called with the unmapped code 40.
C20_Witness ==
    /\ exitRequested
    /\ userHeld = {}
    /\ userLeft < MaxUserKeys
    /\ dc.pc = "downUp"
    /\ dc.key = 40
    /\ keyStates = KeyDown(KeyDown(ResetKeyStates, KEY_CapsShift), KEY_1)
    /\ keyStates # ResetKeyStates

\* The key sequences left in the symbol table of the self-check.
RemainingSequences == {SDL_KeyMap[n] : n \in (DOMAIN SDL_KeyMap) \ selfCheck.removed}

\* The logical keys that occur anywhere in a remaining sequence.
ReachedBySomeSequence ==
    UNION {{seq[i] : i \in 1 .. Len(seq)} : seq \in RemainingSequences}

\* C16 as stated: with the 40-key table unchanged, taking any one entry out
\* of the symbol table makes the self-check abort, and the self-check passes
\* exactly when the key table has 40 entries and every key of it occurs in at
\* least one remaining symbol-table sequence.
C16_AnyRemovalAborts ==
    selfCheck.result # "pending" =>
        /\ (selfCheck.keys = AllKeys /\ Cardinality(selfCheck.removed) = 1)
              => selfCheck.result # "ok"
        /\ selfCheck.result = "ok"
              <=> /\ Cardinality(selfCheck.keys) = 40
                  /\ selfCheck.keys \subseteq ReachedBySomeSequence

\* C16: the self-check passes exactly when the key table has 40 entries and
\* every key of it is, on its own, a remaining symbol-table sequence; a wrong
\* entry count aborts with "invalid keyboard specification", a key without a
\* one-key sequence with "some key is missing in the SDL keymap".  So with the
\* 40-key table unchanged, taking one entry out aborts exactly when that entry
\* was the only one-key sequence of its key: chords never count, and a key
\* with two one-key names survives the loss of either.
C16_SelfCheckCountsSingleKeySequences ==
    selfCheck.result # "pending" =>
        /\ selfCheck.result = "ok"
              <=> /\ Cardinality(selfCheck.keys) = 40
                  /\ \A k \in selfCheck.keys : <<k>> \in RemainingSequences
        /\ selfCheck.result = "panic: invalid keyboard specification"
              <=> Cardinality(selfCheck.keys) # 40
        /\ \A n \in DOMAIN SDL_KeyMap :
              (selfCheck.keys = AllKeys /\ selfCheck.removed = {n}) =>
                 (selfCheck.result = "panic: some key is missing in the SDL keymap"
                    <=> /\ Len(SDL_KeyMap[n]) = 1
                        /\ \A m \in (DOMAIN SDL_KeyMap) \ {n} :
                              SDL_KeyMap[m] # SDL_KeyMap[n])

\* The self-check has aborted on the unchanged 40-key table because the only
\* one-key name of J was taken out, although the chord "-" still contains J.
C16_Witness ==
    /\ selfCheck.keys = AllKeys
    /\ selfCheck.removed = {"j"}
    /\ KEY_J \in ReachedBySomeSequence
    /\ selfCheck.result = "panic: some key is missing in the SDL keymap"

\* The key events among the statements executed so far, in order.
IsKeyEvent(stmt) == stmt.op \in {"KeyDown", "KeyUp"}
KeyEventsDone == SelectSeq(kbTrace, IsKeyEvent)

\* J down/up, SymbolShift down, P down/up, P down/up, SymbolShift up,
\* Enter down/up.
LoadMacroEvents ==
    << [op |-> "KeyDown", arg |-> KEY_J], [op |-> "KeyUp", arg |-> KEY_J],
       [op |-> "KeyDown", arg |-> KEY_SymbolShift],
       [op |-> "KeyDown", arg |-> KEY_P], [op |-> "KeyUp", arg |-> KEY_P],
       [op |-> "KeyDown", arg |-> KEY_P], [op |-> "KeyUp", arg |-> KEY_P],
       [op |-> "KeyUp", arg |-> KEY_SymbolShift],
       [op |-> "KeyDown", arg |-> KEY_Enter], [op |-> "KeyUp", arg |-> KEY_Enter] >>

LoadMacroKeys == {KEY_J, KEY_P, KEY_SymbolShift, KEY_Enter}

\* The Cmd_SendLoad has been submitted and the loop is back in its select.
LoadDone == ldLeft = 0 /\ ldRom # "" /\ pc["keyboard"] = "select"

\* C17 as stated: after a Cmd_SendLoad for ROM48 the key events were exactly
\* the macro's, in order, and the matrix equals its state before the macro;
\* for any other ROM kind nothing is mutated.
C17_MatrixAsBeforeMacro ==
    LoadDone =>
        /\ ldRom = ROM48 => KeyEventsDone = LoadMacroEvents
        /\ ldRom # ROM48 => kbTrace = << >>
        /\ keyStates = dc.before

\* C17: a Cmd_SendLoad for ROM48 applies exactly the key events J down/up,
\* SymbolShift down, P down/up, P down/up, SymbolShift up, Enter down/up in
\* this order, with SymbolShift pressed across both P taps, and leaves J, P,
\* SymbolShift and Enter released and every other bit as before the macro; the
\* matrix is as before exactly when those four keys were released before.  For
\* any other ROM kind the loop executes no statement, the matrix is unchanged
\* and the loop stays in its select.
C17_LoadMacroReleasesItsKeys ==
    /\ kbCmd # NoCmd =>
          /\ kbCmd.rom = ROM48
          /\ ldRom = ROM48
          /\ IsPrefix(KeyEventsDone, LoadMacroEvents)
          /\ Len(KeyEventsDone) \in 3 .. 7 => KeyBit(keyStates, KEY_SymbolShift) = 0
    /\ (ldRom # "" /\ ldRom # ROM48) =>
          /\ kbCmd = NoCmd
          /\ kbTrace = << >>
          /\ keyStates = dc.before
          /\ pc["keyboard"] = "select"
    /\ (LoadDone /\ ldRom = ROM48) =>
          /\ KeyEventsDone = LoadMacroEvents
          /\ \A k \in LoadMacroKeys : KeyBit(keyStates, k) = 1
          /\ DiffCells(dc.before, keyStates) \subseteq {CellOf(k) : k \in LoadMacroKeys}
          /\ (keyStates = dc.before)
                <=> (\A k \in LoadMacroKeys : KeyBit(dc.before, k) = 1)

\* The macro for ROM48 has run to its end on a matrix in which J was held
\* and other keys were pressed: J is released now, the other keys still are
\* pressed.
C17_Witness ==
    /\ LoadDone
    /\ ldRom = ROM48
    /\ KeyEventsDone = LoadMacroEvents
    /\ KeyBit(dc.before, KEY_J) = 0
    /\ KeyBit(dc.before, KEY_CapsShift) = 0
    /\ KeyBit(keyStates, KEY_J) = 1
    /\ KeyBit(keyStates, KEY_CapsShift) = 0

\* C18 as stated: on every ResizeVideo call, when the effective scale tier and
\* hence the height changes, consoleY is rescaled by the same factor as the
\* height, so that consoleY / height is preserved up to integer rounding; when
\* the height does not change, consoleY is unchanged.
C18_ConsoleYFollowsHeight ==
    [][(rv[1].pc = "closing" /\ rv'[1].pc = "newApp") =>
          IF rd'.height # rd.height
          THEN LET d == rd'.consoleY * rd.height - rd.consoleY * rd'.height
               IN -rd.height <= d /\ d <= rd.height
          ELSE rd'.consoleY = rd.consoleY]_vars

----------------------------------------------------------------------------
\* Rows of the matrix in which ks1 and ks2 differ.
RowsChanged(ks1, ks2) == {row \in Rows : ks1[row] # ks2[row]}

\* C21: the command loop owns Keyboard.mutex only while it is at a KeyDown or
\* KeyUp, never at a frame delay, at the send of a completion value or in its
\* select; a critical section ends with the access of at most one row; the
\* core holds the read lock only inside GetKeyState.  A GetKeyState blocked
\* behind the macro sees at most one critical section end before it is
\* admitted, and every GetKeyState returns.
C21_LockHeldForOneAccessOnly ==
    /\ [](mu.w = "keyboard" => KbAtKeyAccess)
    /\ []("core" \in (mu.r \cup mu.rq) => gk.pc = "rlock")
    /\ [][Mutex_Holds(mu, "keyboard") =>
             \/ mu'.w = "keyboard" /\ UNCHANGED <<kbVars, pc>>
             \/ /\ mu'.w = ""
                /\ Cardinality(RowsChanged(keyStates, keyStates')) <= 1
                /\ Len(kbTrace') = Len(kbTrace) + 1]_vars
    /\ [](gk.waited <= 1)
    /\ [](gk.pc = "rlock" => <>(gk.pc = "idle"))

\* A GetKeyState issued while a command was in progress was blocked by the
\* loop's critical section, was admitted when that section ended and has
\* returned the row the section left.
C21_Witness ==
    /\ gk.during
    /\ gk.waited = 1
    /\ gk.got >= 1
    /\ gk.pc = "idle"
    /\ gk.value # 255

----------------------------------------------------------------------------
\* C22: the command loop has at most one queued command in progress, and the
\* commands run one after the other in the order in which the loop accepted
\* them: a command is accepted only when none is in progress, the statements
\* executed are those of the accepted command in their order, and the command
\* is over only when its last statement has been executed; so no key event of
\* a command precedes the last step of the command accepted before it,
\* whoever submitted them.
C22_OneCommandInAcceptanceOrder ==
    /\ [](kbCmd # NoCmd =>
            /\ pc["keyboard"] = "cmd"
            /\ kbStep \in 1 .. Len(CommandScript(kbCmd))
            /\ kbTrace = SubSeq(CommandScript(kbCmd), 1, kbStep - 1))
    /\ [][kbCmd' # kbCmd =>
             IF kbCmd = NoCmd
             THEN kbStep' = 1 /\ kbTrace' = << >>
             ELSE kbCmd' = NoCmd /\ kbTrace' = CommandScript(kbCmd)]_vars
    /\ [][(kbTrace' # kbTrace /\ kbTrace' # << >>) =>
             /\ kbCmd # NoCmd
             /\ kbTrace' = Append(kbTrace, CommandScript(kbCmd)[kbStep])]_vars

\* A KeyPress of one client has run to its completion value and the load
\* macro submitted by another client is now in progress, past its first key.
C22_Witness ==
    /\ pr.got = 1
    /\ kbCmd.type = "SendLoad"
    /\ kbStep > 2
    /\ ldRom = ROM48

----------------------------------------------------------------------------
\* C23 as stated: after every completed EnableAudio / SetAudioFreq /
\* SetAudioQuality call that ran setAudioParameters, with the backend
\* succeeding or failing, the renderer's audio flag is true exactly when one
\* audio receiver is registered with the emulation core, and never more than
\* one receiver is registered.
C23_AudioFlagMatchesReceiver ==
    /\ Cardinality(audioReceivers) <= 1
    /\ (ac.pc = "idle" /\ ac.result \in {"registered", "disabled", "failed"}) =>
          (audioCfg.audio <=> Cardinality(audioReceivers) = 1)

----------------------------------------------------------------------------
\* C24 as stated: a ResizeVideo call that has detached the core's display
\* sinks completes both surface swaps and returns, also when a terminate
\* request reaches the renderer loop meanwhile: the loop does not take the
\* Terminate case while a ResizeVideo call is between its detach and its
\* return.
C24_LoopOutlivesResize ==
    pc["renderer"] \in {"termEcho", "termDone", "terminated"} => rv[1].pc = "idle"

----------------------------------------------------------------------------
\* The mode a caller's surfaces were built for, and the mode the renderer's
\* fields describe (fullscreen counts as 2x).
CallerMode(c) == <<rv[c].scale2x \/ rv[c].fullscreen, rv[c].fullscreen>>
FieldsMode == <<rd.scale2x \/ rd.fullscreen, rd.fullscreen>>

\* C25 as stated: with two ResizeVideo calls running concurrently, the loop
\* never frees a display surface that is still a display sink of the
\* emulation core, and when both calls have returned the width, height, scale
\* and fullscreen fields describe the mode the installed chrome surface and
\* the installed display surface were built for.
C25_ConcurrentResizeIsConsistent ==
    /\ freed \cap coreDisplays = {}
    /\ (\A c \in Callers : rv[c].pc = "idle" /\ rv[c].left = 0) =>
          \E ca \in Callers, cs \in Callers :
             /\ rd.appSurface = rv[ca].app
             /\ rd.speccySurface = rv[cs].speccy
             /\ CallerMode(ca) = FieldsMode
             /\ CallerMode(cs) = FieldsMode
             /\ rd.width = width(rd.scale2x, rd.fullscreen)
             /\ rd.height = height(rd.scale2x, rd.fullscreen)

(***************************************************************************)
(* C26: after any sequence of joystick axis events, starting with no       *)
(* Kempston bit set, the two opposite direction bits of one axis (left     *)
(* and right, up and down) are never both set, also when the stick goes    *)
(* from one side directly to the other without a centred event between     *)
(***************************************************************************)
C26_OppositeDirectionsExclusive ==
    /\ ~({"KEMPSTON_LEFT", "KEMPSTON_RIGHT"} \subseteq kempston)
    /\ ~({"KEMPSTON_UP", "KEMPSTON_DOWN"} \subseteq kempston)

----------------------------------------------------------------------------
\* C27: starting from reset and using only KeyDown / KeyUp based operations
\* (device keys with matched press and release, also chords that share a
\* modifier, KeyPress, SendLoad, in any interleaving): whenever every
\* pressed device key has been released, its release event is handled to
\* the end, and no queued command is in progress, all 8 matrix rows read
\* 0xff.
C27_QuiescentMatrixIsReset ==
    (userHeld = {} /\ pc["sdl"] # "keys" /\ kbCmd = NoCmd)
        => keyStates = ResetKeyStates

\* Two device keys that share the modifier Symbol Shift ("left ctrl" and "-")
\* were held down together and are both released again, a KeyPress, a
\* KeyPressSequence of two keys and the load macro have run to the end.
C27_Witness ==
    /\ userChord >= 2
    /\ userHeld = {}
    /\ pc["sdl"] = "select"
    /\ evCur.type = "KEYUP"
    /\ kbCmd = NoCmd
    /\ pr.got = 1
    /\ sq.pc = "returned" /\ Len(sq.keys) = 2 /\ sq.buf + sq.got = 2
    /\ ldRom # "" /\ ldLeft = 0
    /\ CanReceiveCommand
    /\ keyStates = ResetKeyStates

----------------------------------------------------------------------------
\* The command loop stands at cmd.done <- true of a KeyPress command: the
\* completion value is not yet received.
AwaitingDone ==
    /\ pc["keyboard"] = "cmd"
    /\ kbCmd.type = "KeyPress"
    /\ kbCmd.done.kind = "unbuffered"
    /\ CommandScript(kbCmd)[kbStep].op = "done"

\* The caller of KeyPress receives the completion value in this step.
DoneReceived == pr'.got = pr.got + 1 /\ pr.pc = "holding" /\ pr.chan = kbCmd.done.id

\* C28: for a KeyPress(k) the command loop does not return to its select
\* until the caller has received the completion value. While the value is
\* unreceived the loop starts no other queued command and neither receives
\* nor acknowledges a checkpoint or terminate request; the step in which the
\* value is received takes the loop back to its select, where it receives
\* again.
C28_LoopWaitsForCompletionReceipt ==
    /\ [][AwaitingDone =>
             \/ /\ DoneReceived
                /\ pc'["keyboard"] = "select"
                /\ kbCmd' = NoCmd
                /\ CanReceiveCommand'
             \/ /\ pr'.got = pr.got
                /\ AwaitingDone'
                /\ kbCmd' = kbCmd /\ kbStep' = kbStep /\ kbTrace' = kbTrace
                /\ pauseCh'["keyboard"] = pauseCh["keyboard"]
                /\ pauseAcks'["keyboard"] = pauseAcks["keyboard"]
                /\ termCh'["keyboard"] = termCh["keyboard"]
                /\ termAcks'["keyboard"] = termAcks["keyboard"]]_vars
    /\ [][(pc["keyboard"] = "cmd" /\ kbCmd.type = "KeyPress"
           /\ kbCmd.done.kind = "unbuffered" /\ pc'["keyboard"] # "cmd")
             => AwaitingDone /\ DoneReceived]_vars

\* The loop stands at the completion send of a KeyPress whose caller has not
\* received yet, while a KeyPressSequence caller waits to hand over its first
\* command and the application wants to terminate the loop.
C28_Witness ==
    /\ AwaitingDone
    /\ pr.pc = "holding" /\ pr.got = 0
    /\ sq.pc = "sending" /\ sq.sent = 0
    /\ exitRequested
    /\ termCh["keyboard"] = "idle"
    /\ termAcks["keyboard"] = 0

----------------------------------------------------------------------------
\* The address lies in the screen bitmap or in the screen attributes.
InScreenRange(address) == address >= SCREEN_BASE_ADDR /\ address < AttrEnd

\* C29: Write(a, v) with a < 0x4000 leaves every byte unchanged; Write(a, v)
\* with a >= 0x4000 makes a following Read(a) return v and changes no other
\* address; for an address in the screen bitmap or attribute range the ULA
\* is called once, with the old and the new value, before the byte is
\* stored, and for any other address it is not called.
C29_WriteStoresInRamOnly ==
    mw.calls > 0 =>
        \* before the store: the ULA has been told, the bytes are as they were
        /\ mw.pc = "store" => memData = mw.before
        /\ InScreenRange(mw.address) =>
              /\ Len(ulaLog) = Len(mw.logBefore) + 1
              /\ SubSeq(ulaLog, 1, Len(mw.logBefore)) = mw.logBefore
              /\ ulaLog[Len(ulaLog)].address = mw.address
              /\ ulaLog[Len(ulaLog)].old = mw.before[mw.address]
              /\ ulaLog[Len(ulaLog)].new = mw.value
              /\ ulaLog[Len(ulaLog)].fn =
                    IF mw.address < ATTR_BASE_ADDR THEN "screenBitmapWrite"
                    ELSE "screenAttrWrite"
        /\ ~InScreenRange(mw.address) => ulaLog = mw.logBefore
        \* after the call has returned
        /\ mw.pc = "idle" =>
              /\ \A a \in MemAddrs : a # mw.address => memData[a] = mw.before[a]
              /\ mw.address < RamStart => memData = mw.before
              /\ mw.address >= RamStart => Memory_Read(memData, mw.address) = mw.value
              /\ mw.read # NoRead =>
                    mw.read.value = IF mw.read.address = mw.address /\ mw.address >= RamStart
                                    THEN mw.value
                                    ELSE mw.before[mw.read.address]

\* A second Write has replaced a non-zero attribute byte by another value
\* and a Read of that address has returned the new value; the ULA was told
\* the old and the new value.
C29_Witness ==
    /\ mw.pc = "idle"
    /\ mw.calls = 2
    /\ mw.address = ATTR_BASE_ADDR
    /\ mw.before[ATTR_BASE_ADDR] = 255
    /\ mw.value = 1
    /\ mw.read = [address |-> ATTR_BASE_ADDR, value |-> 1]
    /\ Len(ulaLog) = 2
    /\ ulaLog[2] = [fn |-> "screenAttrWrite", address |-> ATTR_BASE_ADDR, old |-> 255, new |-> 1]

====
